---- MODULE Spec2Model ----
(***************************************************************************)
(* Model of the TradeBot signal pipeline and backtest simulation:          *)
(*   - the Long/Short strategy evaluators and the StrategyManager          *)
(*     (src/unnamed/part_001, src/internal/services/strategy),             *)
(*   - the in-memory backtest Engine and the repository-backed Engine      *)
(*     (src/internal/operations/backtest/BacktestEngine.go),               *)
(*   - the Simulator (src/unnamed/part_013).                               *)
(*                                                                         *)
(* Numbers.  The code computes in float64.  Prices, levels, sizes, PnL and *)
(* balances are modelled as exact rationals [n, d] in lowest terms;        *)
(* confidences, which the evaluators build as 0.3 + k*0.1, are modelled as *)
(* integers counting tenths.  The analyzers' floating point output is an   *)
(* input of the evaluators, drawn from the sets named below.               *)
(***************************************************************************)
EXTENDS Integers, Sequences, FiniteSets, TLC

VARIABLES
    longMinConf,   \* LongStrategy.minConfidence, in tenths
    shortMinConf,  \* ShortStrategy.minConfidence, in tenths
    reversalDelta, \* StrategyManager.reversalDelta, in tenths
    mgrCall,       \* the StrategyManager.Analyze call that just returned: arguments, evaluator returns, result
    mode,          \* which component this behaviour drives
    eng,           \* the backtest Engine (record, see NewEngine)
    sim,           \* the Simulator (record, see NewSimulator)
    ind,           \* the last indicator call: function, arguments, outcome
    cf,            \* the last confidence computation: function, arguments, value
    conc           \* the concurrent executions of a behaviour: threads, locks, channels

vars == <<longMinConf, shortMinConf, reversalDelta, mgrCall, mode, eng, sim, ind, cf, conc>>

-----------------------------------------------------------------------------
(* Exact rational arithmetic standing for float64.                         *)

Abs(x) == IF x < 0 THEN -x ELSE x

RECURSIVE GCD(_, _)
GCD(a, b) == IF b = 0 THEN a ELSE GCD(b, a % b)

RNorm(n, d) == LET g == GCD(Abs(n), d) IN [n |-> n \div g, d |-> d \div g]
RInt(i) == [n |-> i, d |-> 1]
RZero == RInt(0)
RAdd(a, b) ==
    LET g == GCD(a.d, b.d)
    IN  RNorm(a.n * (b.d \div g) + b.n * (a.d \div g), (a.d \div g) * b.d)
RNeg(a) == [n |-> -a.n, d |-> a.d]
RSub(a, b) == RAdd(a, RNeg(b))
RMul(a, b) ==
    LET g1 == GCD(Abs(a.n), b.d)
        g2 == GCD(Abs(b.n), a.d)
    IN  RNorm((a.n \div g1) * (b.n \div g2), (a.d \div g2) * (b.d \div g1))
\* a / b for b > 0 (every divisor in the modelled code is a positive price or balance)
RDiv(a, b) == RMul(a, [n |-> b.d, d |-> b.n])
RLess(a, b) == RSub(a, b).n < 0
RLeq(a, b) == RSub(a, b).n <= 0
RFrac(n, d) == RNorm(n, d)

-----------------------------------------------------------------------------
(* float64 arithmetic, for the places where the code's result depends on    *)
(* rounding: the operations below give the correctly rounded results of    *)
(* IEEE 754 (round to nearest, ties to even) that Go's +, - and / give.    *)

\* The element of a set of one element: a name bound by x \in {e} stands for
\* the value of e, computed once.
Only(S) == CHOOSE x \in S : TRUE

\* Natural numbers of any size: sequences of limbs of 15 bits (base 32768),
\* lowest first, the last one not 0.
LimbAt(a, i) == IF i >= 1 /\ i <= Len(a) THEN a[i] ELSE 0
NatTrim(a0) ==
    Only({LET Top[i \in 0 .. Len(a)] == IF i = 0 \/ a[i] # 0 THEN i ELSE Top[i - 1]
          IN  SubSeq(a, 1, Top[Len(a)]) : a \in {a0}})
NatOf(n) ==
    NatTrim(<<n % 32768, (n \div 32768) % 32768, n \div (32768 * 32768)>>)

\* -1, 0, 1 as a < b, a = b, a > b.
NatCmp(a0, b0) ==
    Only({IF Len(a) # Len(b) THEN (IF Len(a) < Len(b) THEN -1 ELSE 1)
          ELSE LET G[i \in 0 .. Len(a)] ==
                       IF i = 0 THEN 0
                       ELSE IF a[i] > b[i] THEN 1
                       ELSE IF a[i] < b[i] THEN -1
                       ELSE G[i - 1]
               IN  G[Len(a)] : a \in {a0}, b \in {b0}})

NatAdd(a0, b0) ==
    Only({LET n == IF Len(a) < Len(b) THEN Len(b) ELSE Len(a)
              S[i \in 0 .. n] ==
                  IF i = 0 THEN [c |-> 0, out |-> <<>>]
                  ELSE Only({LET t == LimbAt(a, i) + LimbAt(b, i) + prev.c
                             IN  [c |-> t \div 32768, out |-> Append(prev.out, t % 32768)] :
                                 prev \in {S[i - 1]}})
          IN  Only({IF r.c = 1 THEN Append(r.out, 1) ELSE r.out : r \in {S[n]}}) :
              a \in {a0}, b \in {b0}})

\* a - b for a >= b.
NatSub(a0, b0) ==
    Only({LET S[i \in 0 .. Len(a)] ==
                  IF i = 0 THEN [c |-> 0, out |-> <<>>]
                  ELSE Only({LET t == a[i] - LimbAt(b, i) - prev.c
                             IN  [c |-> IF t < 0 THEN 1 ELSE 0,
                                  out |-> Append(prev.out, t % 32768)] :
                                 prev \in {S[i - 1]}})
          IN  NatTrim(S[Len(a)].out) : a \in {a0}, b \in {b0}})

\* a * 2^k and a \div 2^k.
NatShl(a0, k0) ==
    Only({LET w == k \div 15
              s == k % 15
          IN  NatTrim([i \in 1 .. Len(a) + w + 1 |->
                          ((LimbAt(a, i - w) * 2^s) % 32768)
                            + (LimbAt(a, i - w - 1) \div 2^(15 - s))]) :
              a \in {a0}, k \in {k0}})

NatShr(a0, k0) ==
    Only({LET w == k \div 15
              s == k % 15
          IN  IF Len(a) <= w THEN <<>>
              ELSE NatTrim([i \in 1 .. Len(a) - w |->
                               (LimbAt(a, i + w) \div 2^s)
                                 + ((LimbAt(a, i + w + 1) % 2^s) * 2^(15 - s))]) :
              a \in {a0}, k \in {k0}})

\* Bit j of a (bit 0 is the lowest) and the number of bits of a.
NatBit(a0, j0) ==
    Only({(LimbAt(a, j \div 15 + 1) \div 2^(j % 15)) % 2 : a \in {a0}, j \in {j0}})
NatLen(a0) ==
    Only({IF a = <<>> THEN 0
          ELSE 15 * (Len(a) - 1)
                 + (CHOOSE k \in 1 .. 15 : 2^(k - 1) <= a[Len(a)] /\ a[Len(a)] < 2^k) :
              a \in {a0}})

\* The quotient q and the remainder r of a by b, b # 0: long division, one
\* bit of a at a time from bit j down to bit 0; d is the division so far.
NatDivStep(a0, b0, d0, j0) ==
    Only({Only({IF NatCmp(r2, b) >= 0
                THEN [q |-> NatAdd(q2, <<1>>), r |-> NatSub(r2, b)]
                ELSE [q |-> q2, r |-> r2] :
                    r2 \in {NatAdd(NatShl(d.r, 1), IF NatBit(a, j) = 1 THEN <<1>> ELSE <<>>)},
                    q2 \in {NatShl(d.q, 1)}}) :
              a \in {a0}, b \in {b0}, d \in {d0}, j \in {j0}})
RECURSIVE NatDivFrom(_, _, _, _, _)
NatDivFrom(a0, b0, d0, j0, lo0) ==
    Only({IF j < lo THEN d
          ELSE NatDivFrom(a, b, NatDivStep(a, b, d, j), j - 1, lo) :
              a \in {a0}, b \in {b0}, d \in {d0}, j \in {j0}, lo \in {lo0}})
\* The bits are taken in runs of 12, which keeps the evaluation shallow.
RECURSIVE NatDivRuns(_, _, _, _)
NatDivRuns(a0, b0, d0, j0) ==
    Only({IF j < 0 THEN d
          ELSE LET lo == IF j < 12 THEN 0 ELSE j - 11
               IN  NatDivRuns(a, b, NatDivFrom(a, b, d, j, lo), lo - 1) :
              a \in {a0}, b \in {b0}, d \in {d0}, j \in {j0}})
NatDivMod(a0, b0) ==
    Only({NatDivRuns(a, b, [q |-> <<>>, r |-> <<>>], NatLen(a) - 1) :
              a \in {a0}, b \in {b0}})

\* float64 values other than NaN and the infinities: s * m * 2^e with m odd
\* and of 53 bits at most, or 0.
F64Zero == [s |-> 1, m |-> <<>>, e |-> 0]

F64Norm(s, m0, e) ==
    Only({IF m = <<>> THEN F64Zero
          ELSE LET z == CHOOSE k \in 0 .. NatLen(m) - 1 :
                            NatBit(m, k) = 1 /\ \A j \in 0 .. k - 1 : NatBit(m, j) = 0
               IN  [s |-> s, m |-> NatShr(m, z), e |-> e + z] : m \in {m0}})

\* s * m * 2^e rounded to 53 bits, to nearest and to even on a tie.
F64Round(s, m0, e) ==
    Only({IF NatLen(m) <= 53 THEN F64Norm(s, m, e)
          ELSE Only({LET sticky == \E j \in 0 .. d - 2 : NatBit(m, j) = 1
                         up == NatBit(m, d - 1) = 1 /\ (sticky \/ NatBit(kept, 0) = 1)
                     IN  F64Norm(s, IF up THEN NatAdd(kept, <<1>>) ELSE kept, e + d) :
                         d \in {NatLen(m) - 53}, kept \in {NatShr(m, NatLen(m) - 53)}}) :
              m \in {m0}})

F64Neg(a) == IF a.m = <<>> THEN a ELSE [a EXCEPT !.s = -a.s]

F64Add(a0, b0) ==
    Only({IF a.m = <<>> THEN b
          ELSE IF b.m = <<>> THEN a
          ELSE Only({Only({IF a.s = b.s THEN F64Round(a.s, NatAdd(x, y), e)
                           ELSE IF c = 0 THEN F64Zero
                           ELSE IF c > 0 THEN F64Round(a.s, NatSub(x, y), e)
                           ELSE F64Round(b.s, NatSub(y, x), e) :
                               c \in {NatCmp(x, y)}}) :
                         e \in {IF a.e < b.e THEN a.e ELSE b.e},
                         x \in {NatShl(a.m, a.e - (IF a.e < b.e THEN a.e ELSE b.e))},
                         y \in {NatShl(b.m, b.e - (IF a.e < b.e THEN a.e ELSE b.e))}}) :
              a \in {a0}, b \in {b0}})

F64Sub(a, b) == F64Add(a, F64Neg(b))

\* a / b for b # 0: 56 bits of quotient or more, and one more for a remainder.
F64Quo(a0, b0) ==
    Only({IF a.m = <<>> THEN F64Zero
          ELSE Only({Only({F64Round(a.s * b.s,
                                    NatAdd(NatShl(d.q, 1), IF d.r = <<>> THEN <<>> ELSE <<1>>),
                                    a.e - b.e - k - 1) :
                               d \in {NatDivMod(NatShl(a.m, k), b.m)}}) :
                         k \in {56 + NatLen(b.m) - NatLen(a.m)}}) :
              a \in {a0}, b \in {b0}})

F64Int(n) == F64Norm(IF n < 0 THEN -1 ELSE 1, NatOf(IF n < 0 THEN -n ELSE n), 0)
\* The float64 nearest to the rational n / d.
F64Rat(r0) == Only({F64Quo(F64Int(r.n), F64Int(r.d)) : r \in {r0}})

-----------------------------------------------------------------------------
(* Program constants.                                                      *)

TargetProfitBp == 100         \* targetProfit 0.01, in 1/10000
StopLossBp == 60              \* stopLoss 0.006, in 1/10000
InitMinConf == 7              \* minConfidence 0.7 at construction, in tenths
LoweredMinConf == 3           \* minConfidence 0.3 set by calculateConfidence
BaseConf == 3                 \* base confidence 0.3
ReversalDelta == 1            \* reversalDelta 0.1 of NewStrategyManager, in tenths
VolWindow == 12               \* VolumeAnalyzer window for 5m and 15m
VolWindow1h == 6              \* VolumeAnalyzer window for 1h
EmaSlow == 21                 \* slow EMA period of TechnicalAnalyzer.analyzeTimeframe

-----------------------------------------------------------------------------
(* Inputs of the evaluators: what the three analyzers report for the       *)
(* candle windows handed to Analyze.  lens are the lengths of the 5m, 15m, *)
(* 1h and 4h series; close is the close of the latest 5m candle.           *)
(* volRatio is VolumeData.VolumeRatio in hundredths, rsi is RSI.Value.     *)

VolRatios == {40, 80, 150}
EmaDirs == {-1, 0, 1}
Slopes == {-1, 1}
RsiValues == {20, 50, 65}

Signals == [volRatio : VolRatios, emaDir : EmaDirs, emaSlope : Slopes, rsi : RsiValues]

FullLens == [m5 |-> EmaSlow, m15 |-> EmaSlow, h1 |-> EmaSlow, h4 |-> EmaSlow]

\* VolumeAnalyzer.Analyze fails when a series is shorter than its window.
VolumeInsufficient(lens) ==
    lens.m5 < VolWindow \/ lens.m15 < VolWindow \/ lens.h1 < VolWindow1h

\* TechnicalAnalyzer.analyzeTimeframe indexes the nil result of EMA(21) when a
\* series is shorter than 21 candles: a run-time panic.
TechnicalPanics(lens) ==
    lens.m5 < EmaSlow \/ lens.m15 < EmaSlow \/ lens.h1 < EmaSlow \/ lens.h4 < EmaSlow

-----------------------------------------------------------------------------
(* Strategy evaluators.                                                    *)

NoResult == [IsValid |-> FALSE, Direction |-> "", Reason |-> "",
             EntryPrice |-> RZero, StopLoss |-> RZero, TakeProfit |-> RZero,
             Confidence |-> 0]

newInvalidResult(reason) == [NoResult EXCEPT !.Reason = reason]

validateLongSetup(sig) ==
    /\ sig.rsi < 75 /\ sig.rsi > 25
    /\ (sig.emaDir >= 0 \/ sig.emaSlope > 0)
    /\ sig.volRatio > 45

validateShortSetup(sig) ==
    /\ sig.rsi < 75 /\ sig.rsi > 25
    /\ (sig.emaDir <= 0 \/ sig.emaSlope < 0)
    /\ sig.volRatio > 45

Min(a, b) == IF a < b THEN a ELSE b

\* LongStrategy.calculateConfidence and ShortStrategy.calculateConfidence compute
\* the same value (both add the EMA boost for Direction > 0); each also lowers
\* its evaluator's minConfidence to 0.3, which the Analyze operators below apply.
calculateConfidence(sig) ==
    Min(BaseConf
          + (IF sig.volRatio > 100 THEN 1 ELSE 0)
          + (IF sig.emaDir > 0 THEN 1 ELSE 0)
          + (IF sig.rsi > 40 /\ sig.rsi < 60 THEN 1 ELSE 0),
        10)

LongLevels(close) ==
    [StopLoss   |-> RMul(close, RFrac(10000 - StopLossBp, 10000)),
     TakeProfit |-> RMul(close, RFrac(10000 + TargetProfitBp, 10000))]

ShortLevels(close) ==
    [StopLoss   |-> RMul(close, RFrac(10000 + StopLossBp, 10000)),
     TakeProfit |-> RMul(close, RFrac(10000 - TargetProfitBp, 10000))]

\* An evaluator's return: kind "ok" with a result, "err" (an error is returned),
\* or "panic"; minConf is the evaluator's minConfidence after the call.
EvalRet(kind, res, minConf) == [kind |-> kind, res |-> res, minConf |-> minConf]

LongAnalyze(lens, sig, close, minConf) ==
    IF VolumeInsufficient(lens) THEN EvalRet("err", NoResult, minConf)
    ELSE IF TechnicalPanics(lens) THEN EvalRet("panic", NoResult, minConf)
    ELSE IF ~validateLongSetup(sig)
         THEN EvalRet("ok", newInvalidResult("conditions not met"), minConf)
    ELSE LET confidence == calculateConfidence(sig)
             lowered == LoweredMinConf
         IN  IF confidence < lowered
             THEN EvalRet("ok", newInvalidResult("low confidence"), lowered)
             ELSE EvalRet("ok",
                    [IsValid |-> TRUE, Direction |-> "long", Reason |-> "",
                     EntryPrice |-> close,
                     StopLoss |-> LongLevels(close).StopLoss,
                     TakeProfit |-> LongLevels(close).TakeProfit,
                     Confidence |-> confidence],
                    lowered)

ShortAnalyze(lens, sig, close, minConf) ==
    IF VolumeInsufficient(lens) THEN EvalRet("err", NoResult, minConf)
    ELSE IF TechnicalPanics(lens) THEN EvalRet("panic", NoResult, minConf)
    ELSE IF ~validateShortSetup(sig)
         THEN EvalRet("ok", newInvalidResult("conditions not met"), minConf)
    ELSE LET confidence == calculateConfidence(sig)
             lowered == LoweredMinConf
         IN  IF confidence < lowered
             THEN EvalRet("ok", newInvalidResult("low confidence"), lowered)
             ELSE EvalRet("ok",
                    [IsValid |-> TRUE, Direction |-> "short", Reason |-> "",
                     EntryPrice |-> close,
                     StopLoss |-> ShortLevels(close).StopLoss,
                     TakeProfit |-> ShortLevels(close).TakeProfit,
                     Confidence |-> confidence],
                    lowered)

NotRun == EvalRet("notrun", NoResult, 0)

-----------------------------------------------------------------------------
(* StrategyManager (src/unnamed/part_001).                                 *)

NoPosition == [Side |-> "none", Confidence |-> 0]

MgrRet(kind, res, long, short) == [kind |-> kind, res |-> res, long |-> long, short |-> short]

\* analyzeNewPosition, both evaluations valid: the comparison of line 206.
PickHigherTiesLong(longRes, shortRes) ==
    IF longRes.Confidence >= shortRes.Confidence THEN longRes ELSE shortRes
PickHigher(longRes, shortRes) ==
    IF longRes.Confidence > shortRes.Confidence THEN longRes ELSE shortRes

analyzeNewPosition(lens, sig, close, lmc, smc) ==
    LET long == LongAnalyze(lens, sig, close, lmc)
    IN  IF long.kind # "ok" THEN MgrRet(long.kind, NoResult, long, NotRun)
        ELSE
        LET short == ShortAnalyze(lens, sig, close, smc)
        IN  IF short.kind # "ok" THEN MgrRet(short.kind, NoResult, long, short)
            ELSE IF ~long.res.IsValid /\ ~short.res.IsValid
                 THEN MgrRet("ok", newInvalidResult("no valid setup found"), long, short)
            ELSE IF long.res.IsValid /\ short.res.IsValid
                 THEN MgrRet("ok", PickHigher(long.res, short.res), long, short)
            ELSE IF long.res.IsValid
                 THEN MgrRet("ok", long.res, long, short)
            ELSE MgrRet("ok", short.res, long, short)

\* analyzeReversal, line 227: which evaluator is run for an open position.
RunsShortSameSide(position) == position.Side # "long"
RunsShort(position) == position.Side = "long"

\* analyzeReversal, line 247: result.Confidence > position.Confidence + reversalDelta.
ReversalAllowedAtBoundary(newConf, posConf, delta) == newConf >= posConf + delta
ReversalAllowed(newConf, posConf, delta) == newConf > posConf + delta

analyzeReversal(position, lens, sig, close, lmc, smc, delta) ==
    LET long  == IF RunsShort(position) THEN NotRun ELSE LongAnalyze(lens, sig, close, lmc)
        short == IF RunsShort(position) THEN ShortAnalyze(lens, sig, close, smc) ELSE NotRun
        ret   == IF RunsShort(position) THEN short ELSE long
    IN  IF ret.kind # "ok" THEN MgrRet(ret.kind, NoResult, long, short)
        ELSE IF ~ret.res.IsValid
             THEN MgrRet("ok", newInvalidResult("no reversal setup found"), long, short)
        ELSE IF ReversalAllowed(ret.res.Confidence, position.Confidence, delta)
             THEN MgrRet("ok", ret.res, long, short)
        ELSE MgrRet("ok", newInvalidResult("insufficient confidence for reversal"), long, short)

ManagerAnalyze(position, lens, sig, close, lmc, smc, delta) ==
    IF position = NoPosition
    THEN analyzeNewPosition(lens, sig, close, lmc, smc)
    ELSE analyzeReversal(position, lens, sig, close, lmc, smc, delta)

\* minConfidence of an evaluator after a manager call (unchanged when not run).
MinConfAfter(ret, before) == IF ret.kind = "notrun" THEN before ELSE ret.minConf

-----------------------------------------------------------------------------
(* Bounds and input sets of the manager specification.                     *)

MaxPosConf == 6               \* confidences of the open position, in tenths: 0 .. MaxPosConf

\* Highs and lows of the candles, and their closes: a long opened at 100 has
\* its stop at 99.4 and its target at 101, a short its stop at 100.6 and its
\* target at 99.
PriceGrid == {99, 100, 101, 102}
CloseGrid == {100, 101}

PosInputs ==
    {NoPosition} \cup [Side : {"long", "short"}, Confidence : 0 .. MaxPosConf]

LenChoices ==
    {FullLens,
     [FullLens EXCEPT !.m15 = 0],
     [FullLens EXCEPT !.h4 = VolWindow]}

\* The margins SetReversalDelta is called with, in tenths.
Deltas == {0, 1}

\* What the evaluators that returned normally computed inside a manager call
\* (history): the outcome of their setup tests and the confidence.
Computed(ret, sig) ==
    LET long == ret.long.kind = "ok" /\ validateLongSetup(sig)
        short == ret.short.kind = "ok" /\ validateShortSetup(sig)
    IN  [longSetup |-> long, shortSetup |-> short,
         confidence |-> IF long \/ short THEN calculateConfidence(sig) ELSE 0]

NoCall == [position |-> NoPosition, lens |-> FullLens,
           computed |-> [longSetup |-> FALSE, shortSetup |-> FALSE, confidence |-> 0],
           ret |-> MgrRet("none", NoResult, NotRun, NotRun)]

\* The series of a call: full series with any analyzer outputs and close, or
\* series too short for the analyzers, which fail before they compute anything.
MgrSeries ==
    [lens : {FullLens}, sig : Signals, close : CloseGrid]
      \cup [lens : LenChoices \ {FullLens}, sig : {CHOOSE sig \in Signals : TRUE},
             close : {CHOOSE close \in CloseGrid : TRUE}]

\* One call of StrategyManager.Analyze.
MgrAnalyze ==
    \E position \in PosInputs, series \in MgrSeries :
        LET lens == series.lens
            sig == series.sig
            ret == ManagerAnalyze(position, lens, sig, RInt(series.close),
                                  longMinConf, shortMinConf, reversalDelta)
        IN  /\ mgrCall' = [position |-> position, lens |-> lens,
                            computed |-> Computed(ret, sig), ret |-> ret]
            /\ longMinConf' = MinConfAfter(ret.long, longMinConf)
            /\ shortMinConf' = MinConfAfter(ret.short, shortMinConf)
            /\ UNCHANGED <<mode, reversalDelta, eng, sim, ind, cf, conc>>

\* StrategyManager.SetReversalDelta(delta), lines 264-266.  The record of the
\* Analyze call that returned before it is dropped.
SetReversalDelta ==
    /\ \E delta \in Deltas \ {reversalDelta} : reversalDelta' = delta
    /\ mgrCall' = NoCall
    /\ UNCHANGED <<longMinConf, shortMinConf, mode, eng, sim, ind, cf, conc>>

-----------------------------------------------------------------------------
(* Backtest types (src/unnamed/part_014) and candles.                      *)

InitialBalance == 10          \* Config.InitialBalance (NewConfig)
Leverage == 50                \* Config.Leverage (NewConfig)
RiskPerTradePct == 2          \* Config.RiskPerTrade 0.02, in percent
WarmUp == 200                 \* candles skipped before the first analysed one

\* A 5m candle past the warm-up window; t is its OpenTime, counted in candles.
Candles == {c \in [high : PriceGrid, low : PriceGrid, close : CloseGrid] :
                c.low <= c.close /\ c.close <= c.high}
CandleAt(c, t) == [t |-> t, high |-> c.high, low |-> c.low, close |-> c.close]
\* When no position is open only Close and OpenTime of the candle are read.
FlatCandles == {c \in Candles : c.high = c.close /\ c.low = c.close}

\* Trade of types.go.  xHigh and xLow record the High and Low of the candle a
\* trade was closed on, and xConf the confidence, in tenths, of the strategy
\* result the Simulator opened it from (history, not fields of the struct).
NoTrade == [Symbol |-> "", EntryTime |-> 0, ExitTime |-> 0, Side |-> "",
            EntryPrice |-> RZero, ExitPrice |-> RZero, Size |-> RZero,
            StopLoss |-> RZero, TakeProfit |-> RZero, PnL |-> RZero,
            Reason |-> "", xHigh |-> 0, xLow |-> 0, xConf |-> 0]

TakeProfitHit(trade, c) ==
    IF trade.Side = "long" THEN RLeq(trade.TakeProfit, RInt(c.high))
                           ELSE RLeq(RInt(c.low), trade.TakeProfit)
StopLossHit(trade, c) ==
    IF trade.Side = "long" THEN RLeq(RInt(c.low), trade.StopLoss)
                           ELSE RLeq(trade.StopLoss, RInt(c.high))

shouldExitPosition(trade, c) == TakeProfitHit(trade, c) \/ StopLossHit(trade, c)

getExitReasonStopFirst(trade, c) ==
    IF StopLossHit(trade, c) THEN "stop_loss"
    ELSE IF TakeProfitHit(trade, c) THEN "take_profit"
    ELSE "unknown"
getExitReason(trade, c) ==
    IF TakeProfitHit(trade, c) THEN "take_profit"
    ELSE IF StopLossHit(trade, c) THEN "stop_loss"
    ELSE "unknown"

\* signed return of a trade leaving at exitPrice
PnlPercent(trade, exitPrice) ==
    IF trade.Side = "long"
    THEN RDiv(RSub(exitPrice, trade.EntryPrice), trade.EntryPrice)
    ELSE RDiv(RSub(trade.EntryPrice, exitPrice), trade.EntryPrice)

Append1(seq, x) == seq \o <<x>>

-----------------------------------------------------------------------------
(* The in-memory Engine (BacktestEngine.go, lines 382-684).                *)
(* The engine is a record: the struct's fields, the position of            *)
(* RunBacktest (pc, the symbols still to run, the current symbol, the      *)
(* candles left in it, the time of the next candle, the activePosition     *)
(* slot of runSymbol), what RunBacktest returned (out), live: per symbol,  *)
(* the positions opened and not yet closed (history), ran: the symbols     *)
(* whose runSymbol returned nil (history), dataFailed: the symbols whose    *)
(* candles could not be loaded (history), tooShort: the symbols with fewer *)
(* candles than the warm-up window (history), used: the candles processed  *)
(* so far (history), clock: per symbol, the open time of the last candle a *)
(* method was called with directly, and positions: the rows of the         *)
(* position repository (used by the repository-backed Engine only).        *)

Symbols == {"BTC", "ETH"}

\* RunBacktest has not returned; it returned (nil, err), why names the error.
NoOut == [kind |-> "none"]
ErrorOut(why) == [kind |-> "error", why |-> why]

\* The open times of the candle being processed (at) and of the latest candle
\* of each series handed to the manager at the last analysis of the
\* repository-backed Engine (history).  Time is counted in 5m candles: the
\* candle at index i of the 5m series opens at time i.
NoHanded == [at |-> 0, m5 |-> 0, m15 |-> 0, h1 |-> 0, h4 |-> 0]

NewEngine ==
    [pc |-> "idle", syms |-> <<>>, cur |-> "", left |-> 0, t |-> 0,
     active |-> NoTrade,
     currentBalance |-> RInt(InitialBalance), maxBalance |-> RInt(InitialBalance),
     trades |-> <<>>, equityCurve |-> <<>>,
     out |-> NoOut, live |-> [s \in Symbols |-> 0], ran |-> <<>>,
     dataFailed |-> <<>>, tooShort |-> <<>>, used |-> 0,
     clock |-> [s \in Symbols |-> 0], positions |-> <<>>,
     handed |-> NoHanded, stop |-> FALSE]

EngUpdateBalance(e, pnl) ==
    LET b == RAdd(e.currentBalance, pnl)
    IN  [e EXCEPT !.currentBalance = IF RLess(b, RZero) THEN RZero ELSE b,
                  !.maxBalance = IF RLess(e.maxBalance, b) THEN b ELSE e.maxBalance]

EngUpdateEquityCurve(e, t) ==
    [e EXCEPT !.equityCurve = Append1(e.equityCurve, [Timestamp |-> t, Balance |-> e.currentBalance])]

EngOpenPosition(result, symbol, c) ==
    [NoTrade EXCEPT
        !.Symbol = symbol,
        !.EntryTime = c.t,
        !.Side = result.Direction,
        !.EntryPrice = RInt(c.close),
        !.Size = RDiv(RMul(RMul(RInt(InitialBalance), RFrac(RiskPerTradePct, 100)),
                           RInt(Leverage)),
                      RInt(c.close)),
        !.StopLoss = result.StopLoss,
        !.TakeProfit = result.TakeProfit]

\* closePosition, lines 540-559: the exit price is the candle's close.
EngClosedTrade(trade, c, reason) ==
    LET exit == RInt(c.close)
    IN  [trade EXCEPT
            !.ExitTime = c.t,
            !.ExitPrice = exit,
            !.Reason = reason,
            !.PnL = RMul(RMul(trade.Size, PnlPercent(trade, exit)), RInt(Leverage)),
            !.xHigh = c.high,
            !.xLow = c.low]

EngClosePosition(e, trade, c, reason) ==
    LET closed == EngClosedTrade(trade, c, reason)
        e1 == EngUpdateBalance(e, closed.PnL)
    IN  [e1 EXCEPT !.trades = Append1(e1.trades, closed),
                   !.live[trade.Symbol] = @ - 1]

\* runSymbol, line 474: with a position in the slot the candle is only tested
\* for an exit and the strategy is not consulted.
EngSlotFree(e) == e.active = NoTrade

\* One iteration of the candle loop of runSymbol (lines 466-495) on candle c;
\* ret is what strategyManager.Analyze returned when it was called.
EngLoopBody(e, c, ret) ==
    IF ~EngSlotFree(e)
    THEN IF shouldExitPosition(e.active, c)
         THEN [EngClosePosition(e, e.active, c, getExitReason(e.active, c))
                  EXCEPT !.active = NoTrade]
         ELSE e
    ELSE IF ret.kind = "err" THEN [e EXCEPT !.pc = "failed", !.out = ErrorOut("analysis")]
    ELSE IF ret.kind = "panic" THEN [e EXCEPT !.pc = "panic"]
    ELSE IF ret.res.IsValid
         THEN EngUpdateEquityCurve(
                  [e EXCEPT !.active = EngOpenPosition(ret.res, e.cur, c),
                            !.live[e.cur] = @ + 1],
                  c.t)
         ELSE e

\* The loop advances; after the last candle runSymbol returns nil and the
\* position still in the slot is dropped with the slot.
EngAdvance(e) ==
    IF e.pc # "sym" THEN [e EXCEPT !.used = @ + 1]
    ELSE IF e.left = 1
         THEN [e EXCEPT !.pc = "run", !.left = 0, !.ran = Append1(@, e.cur), !.used = @ + 1]
         ELSE [e EXCEPT !.left = @ - 1, !.t = @ + 1, !.used = @ + 1]

SumPnL(trades) ==
    LET S[i \in 0 .. Len(trades)] ==
            IF i = 0 THEN RZero ELSE RAdd(S[i - 1], trades[i].PnL)
    IN  S[Len(trades)]

\* Drawdown loop of calculateResults (lines 617-629).
MaxDrawdownOf(curve) ==
    LET Step[i \in 0 .. Len(curve)] ==
            IF i = 0 THEN [peak |-> RInt(InitialBalance), dd |-> RZero]
            ELSE LET prev == Step[i - 1]
                     bal == curve[i].Balance
                     peak == IF RLess(prev.peak, bal) THEN bal ELSE prev.peak
                     drawdown == RDiv(RSub(peak, bal), peak)
                 IN  [peak |-> peak,
                      dd |-> IF RLess(prev.dd, drawdown) THEN drawdown ELSE prev.dd]
    IN  Step[Len(curve)].dd

\* calculateSharpeRatio (lines 648-684).  The balances of the curve are taken
\* as the float64 values nearest to them and the returns, their average and
\* the test stdDev == 0 are computed in float64 as the code computes them.

\* A balance of 0 is the divisor of a return (line 656): the return is NaN or
\* an infinity, and so are the average, the variance and the result.
ZeroDivisor(curve) == \E i \in 1 .. Len(curve) - 1 : curve[i].Balance = RZero

\* returns (lines 653-657), for a curve without a zero divisor.
SharpeReturns(curve) ==
    [i \in 1 .. Len(curve) - 1 |->
        F64Quo(F64Sub(F64Rat(curve[i + 1].Balance), F64Rat(curve[i].Balance)),
               F64Rat(curve[i].Balance))]

\* avgReturn (lines 660-664): the sum from 0.0 in the order of the slice,
\* divided by the number of returns.
SharpeAvgReturn(returns) ==
    LET S[i \in 0 .. Len(returns)] ==
            IF i = 0 THEN F64Zero ELSE F64Add(S[i - 1], returns[i])
    IN  F64Quo(S[Len(returns)], F64Int(Len(returns)))

\* stdDev == 0 (lines 667-674) for a curve of 2 points or more.  With one
\* return the variance is 0 / 0, NaN, and the test is false; with a zero
\* divisor it is NaN too.  Otherwise the variance is a sum of squares over
\* n - 1 > 0 and its root is 0 exactly when every return equals the average
\* (the square of a difference of two float64 returns does not underflow).
StdDevIsZero(curve) ==
    /\ Len(curve) >= 3
    /\ ~ZeroDivisor(curve)
    /\ \E returns \in {SharpeReturns(curve)} :
          \E avgReturn \in {SharpeAvgReturn(returns)} :
             \A i \in 1 .. Len(returns) : returns[i] = avgReturn

\* The kind of value calculateSharpeRatio returns: "zero" (line 650 or 675),
\* "nan", or "ratio", the quotient of line 683 with a stdDev that is not 0.
SharpeKind(curve) ==
    IF Len(curve) < 2 THEN "zero"
    ELSE IF ZeroDivisor(curve) \/ Len(curve) = 2 THEN "nan"
    ELSE IF StdDevIsZero(curve) THEN "zero"
    ELSE "ratio"

WinningCount(trades) == Cardinality({i \in 1 .. Len(trades) : RLess(RZero, trades[i].PnL)})

\* An early return that kept the curve the Engine recorded.
NoTradesResultsWithCurve(e) ==
    [kind |-> "results", TotalTrades |-> 0, WinningTrades |-> 0, LosingTrades |-> 0,
     WinRate |-> RZero, AveragePnL |-> RZero, MaxDrawdown |-> RZero,
     FinalBalance |-> e.currentBalance, SharpeRatio |-> "zero",
     Trades |-> <<>>, EquityCurve |-> e.equityCurve]

\* The early return of calculateResults (lines 588-592, and 276-280 in the
\* repository-backed Engine): only FinalBalance is set, every other field has
\* its zero value, the curve included.
NoTradesResults(e) ==
    [kind |-> "results", TotalTrades |-> 0, WinningTrades |-> 0, LosingTrades |-> 0,
     WinRate |-> RZero, AveragePnL |-> RZero, MaxDrawdown |-> RZero,
     FinalBalance |-> e.currentBalance, SharpeRatio |-> "zero",
     Trades |-> <<>>, EquityCurve |-> <<>>]

calculateResults(e) ==
    IF Len(e.trades) = 0 THEN NoTradesResults(e)
    ELSE LET total == Len(e.trades)
             wins == WinningCount(e.trades)
             totalPnL == SumPnL(e.trades)
         IN  [kind |-> "results", TotalTrades |-> total, WinningTrades |-> wins,
              LosingTrades |-> total - wins,
              WinRate |-> RFrac(wins, total),
              AveragePnL |-> RDiv(totalPnL, RInt(total)),
              MaxDrawdown |-> MaxDrawdownOf(e.equityCurve),
              FinalBalance |-> e.currentBalance,
              SharpeRatio |-> SharpeKind(e.equityCurve),
              Trades |-> e.trades, EquityCurve |-> e.equityCurve]

\* What GetPricesByTimeFrame hands runSymbol for a symbol: an error (ok FALSE)
\* or a series of len candles.  runSymbol, lines 447-464.
EngRunSymbolStart(e, data) ==
    LET e1 == [e EXCEPT !.cur = Head(e.syms), !.syms = Tail(e.syms), !.active = NoTrade]
    IN  IF ~data.ok THEN [e1 EXCEPT !.pc = "failed", !.out = ErrorOut("data access"),
                                    !.dataFailed = Append1(@, e1.cur)]
        ELSE IF data.len < WarmUp
             THEN [e1 EXCEPT !.pc = "failed", !.out = ErrorOut("insufficient data"),
                             !.tooShort = Append1(@, e1.cur)]
        ELSE IF data.len = WarmUp THEN [e1 EXCEPT !.ran = Append1(@, e1.cur)]
        ELSE [e1 EXCEPT !.pc = "sym", !.left = data.len - WarmUp, !.t = 1]

-----------------------------------------------------------------------------
(* Bounds and inputs of the backtest specifications.                       *)

MaxCandles == 4               \* candles past the warm-up window, in a run

SymbolLists == {<<"BTC">>, <<"ETH", "BTC">>}

PriceData(used) ==
    {[ok |-> FALSE, len |-> 0], [ok |-> TRUE, len |-> WarmUp - 1]}
      \cup {[ok |-> TRUE, len |-> WarmUp + n] : n \in 0 .. MaxCandles - used}

\* The analyzer outputs fed to the backtests: a cross-section of Signals.
BtSignals == {s \in Signals : s.emaSlope = 1 /\ s.volRatio # 40 /\ s.rsi # 65}

\* The series the in-memory Engine hands the manager at line 485: the 5m
\* window of WarmUp + 1 candles and nil for 15m, 1h and 4h.
EngineLens == [m5 |-> WarmUp + 1, m15 |-> 0, h1 |-> 0, h4 |-> 0]
\* A 5m window with the other three series present, as the repository-backed
\* Engine and the Simulator hand them over.
FedLens == [m5 |-> WarmUp + 1, m15 |-> EmaSlow, h1 |-> EmaSlow, h4 |-> EmaSlow]

-----------------------------------------------------------------------------
(* Actions of the in-memory Engine.                                        *)

\* RunBacktest is called with a list of symbols.
EngStart ==
    /\ eng.pc = "idle"
    /\ \E symbols \in SymbolLists : eng' = [eng EXCEPT !.pc = "run", !.syms = symbols]
    /\ UNCHANGED <<longMinConf, shortMinConf, mgrCall, mode, reversalDelta, sim, ind, cf, conc>>

\* RunBacktest calls runSymbol for the next symbol, which loads its candles.
EngRunSymbol ==
    /\ eng.pc = "run" /\ eng.syms # <<>>
    /\ \E data \in PriceData(eng.used) : eng' = EngRunSymbolStart(eng, data)
    /\ UNCHANGED <<longMinConf, shortMinConf, mgrCall, mode, reversalDelta, sim, ind, cf, conc>>

\* One candle of runSymbol's loop.  Line 485 hands the manager the 5m window
\* and nil for the 15m, 1h and 4h series.
EngCandle ==
    /\ eng.pc = "sym"
    /\ \E c \in (IF EngSlotFree(eng) THEN FlatCandles ELSE Candles),
          sig \in (IF EngSlotFree(eng) THEN BtSignals ELSE {CHOOSE s \in BtSignals : TRUE}) :
          LET ret == IF EngSlotFree(eng)
                     THEN ManagerAnalyze(NoPosition, EngineLens, sig, RInt(c.close),
                                         longMinConf, shortMinConf, reversalDelta)
                     ELSE MgrRet("none", NoResult, NotRun, NotRun)
          IN  /\ eng' = EngAdvance(EngLoopBody(eng, CandleAt(c, eng.t), ret))
              /\ longMinConf' = MinConfAfter(ret.long, longMinConf)
              /\ shortMinConf' = MinConfAfter(ret.short, shortMinConf)
    /\ UNCHANGED <<mgrCall, mode, reversalDelta, sim, ind, cf, conc>>

\* Every symbol ran: RunBacktest returns calculateResults().
EngFinish ==
    /\ eng.pc = "run" /\ eng.syms = <<>>
    /\ eng' = [eng EXCEPT !.pc = "done", !.out = calculateResults(eng)]
    /\ UNCHANGED <<longMinConf, shortMinConf, mgrCall, mode, reversalDelta, sim, ind, cf, conc>>

-----------------------------------------------------------------------------
(* The methods of the in-memory Engine called one by one on a new Engine,  *)
(* each with the next candle of a symbol's series.  eng.active is the      *)
(* Trade the caller got from openPosition and eng.used the calls made so   *)
(* far.                                                                    *)

MaxEngineCalls == 4

\* The valid results the StrategyManager returns for a close when it is handed
\* all four series.
ValidResults(close) ==
    {ret.res : ret \in {r \in {ManagerAnalyze(NoPosition, FullLens, sig, RInt(close),
                                               InitMinConf, InitMinConf, ReversalDelta) :
                                    sig \in BtSignals} :
                           r.kind = "ok" /\ r.res.IsValid}}

\* The next candle of the symbol's series, of shape c.
NextCandle(e, symbol, c) == CandleAt(c, e.clock[symbol] + 1)
Called(e, symbol) == [e EXCEPT !.clock[symbol] = @ + 1, !.used = @ + 1]

\* trade := e.openPosition(result, price), lines 526-538.
CallOpenPosition ==
    /\ mode = "calls"
    /\ eng.active = NoTrade /\ eng.used < MaxEngineCalls
    /\ \E symbol \in Symbols, c \in FlatCandles :
          \E result \in ValidResults(c.close) :
              eng' = [Called(eng, symbol) EXCEPT
                         !.active = EngOpenPosition(result, symbol, NextCandle(eng, symbol, c)),
                         !.live[symbol] = @ + 1]
    /\ UNCHANGED <<longMinConf, shortMinConf, mgrCall, mode, reversalDelta, sim, ind, cf, conc>>

\* e.updateEquityCurve(price.OpenTime), lines 574-582.
CallUpdateEquityCurve ==
    /\ mode = "calls"
    /\ eng.used < MaxEngineCalls
    /\ \E symbol \in Symbols :
          eng' = Called(EngUpdateEquityCurve(eng, eng.clock[symbol] + 1), symbol)
    /\ UNCHANGED <<longMinConf, shortMinConf, mgrCall, mode, reversalDelta, sim, ind, cf, conc>>

\* e.closePosition(trade, price, e.getExitReason(trade, price)), lines 507-524
\* and 540-559, on any candle of the trade's symbol.
CallClosePosition ==
    /\ mode = "calls"
    /\ eng.active # NoTrade /\ eng.used < MaxEngineCalls
    /\ \E c \in Candles :
          LET price == NextCandle(eng, eng.active.Symbol, c)
          IN  eng' = [Called(EngClosePosition(eng, eng.active, price,
                                              getExitReason(eng.active, price)),
                             eng.active.Symbol)
                         EXCEPT !.active = NoTrade]
    /\ UNCHANGED <<longMinConf, shortMinConf, mgrCall, mode, reversalDelta, sim, ind, cf, conc>>

\* e.calculateResults(), lines 584-646.
CallCalculateResults ==
    /\ mode = "calls"
    /\ eng.out = NoOut
    /\ eng' = [eng EXCEPT !.out = calculateResults(eng)]
    /\ UNCHANGED <<longMinConf, shortMinConf, mgrCall, mode, reversalDelta, sim, ind, cf, conc>>

-----------------------------------------------------------------------------
(* The repository-backed Engine (BacktestEngine.go, lines 1-380).          *)

FixedSize == 1                \* const FixedSize

\* models.Position.  xHit records that a candle processed while the position
\* was open met its exit condition, and xNextTakeProfit that the candle after
\* the one it was opened on met its take-profit (history, not columns).
NewPosition(result, symbol, c) ==
    [Symbol |-> symbol, Side |-> result.Direction, Size |-> RInt(FixedSize),
     Leverage |-> Leverage, EntryPrice |-> RInt(c.close),
     StopLossPrice |-> result.StopLoss, TakeProfitPrice |-> result.TakeProfit,
     PnL |-> RZero, OpenTime |-> c.t, CloseTime |-> 0, Status |-> "open",
     xHit |-> FALSE, xNextTakeProfit |-> FALSE]

\* The levels of a position, read as the Trade that shouldExitPosition takes.
PositionAsTrade(p) ==
    [NoTrade EXCEPT !.Symbol = p.Symbol, !.Side = p.Side, !.EntryPrice = p.EntryPrice,
                    !.StopLoss = p.StopLossPrice, !.TakeProfit = p.TakeProfitPrice]

\* PositionRepository.FindOpenPositionsBySymbol: the indexes of the open rows.
FindOpenPositionsBySymbol(positions, symbol) ==
    {i \in 1 .. Len(positions) :
        positions[i].Symbol = symbol /\ positions[i].Status = "open"}

\* runSymbol, lines 76-126: the four series are loaded; any failed load is
\* returned.  data.lens are the lengths of the 15m, 1h and 4h series.
RepoRunSymbolStart(e, data) ==
    LET e1 == [e EXCEPT !.cur = Head(e.syms), !.syms = Tail(e.syms)]
    IN  IF ~data.ok THEN [e1 EXCEPT !.pc = "failed", !.out = ErrorOut("data access"),
                                    !.dataFailed = Append1(@, e1.cur)]
        ELSE IF data.len <= WarmUp THEN [e1 EXCEPT !.ran = Append1(@, e1.cur)]
        ELSE [e1 EXCEPT !.pc = "sym", !.left = data.len - WarmUp, !.t = 1]

\* 5m candles in a 15m, a 1h and a 4h candle.
M15Per5m == 3
H1Per5m == 12
H4Per5m == 48

\* The open time of the latest candle, of a timeframe of per 5m candles, that
\* opens no later than time t.
LastOpen(t, per) == t - (t % per)

\* The series of line 145: the 5m window prices5m[i-200 : i+1], and the 15m, 1h
\* and 4h series as loaded, that is up to endTime, the open time of the last
\* 5m candle of the run.  lens are the lengths of the loaded series; a series
\* loaded empty hands over no candle (0).
HandedSeries(e, lens) ==
    LET i == WarmUp + e.t - 1
        end == i + e.left - 1
    IN  [at |-> i, m5 |-> i,
         m15 |-> IF lens.m15 = 0 THEN 0 ELSE LastOpen(end, M15Per5m),
         h1 |-> IF lens.h1 = 0 THEN 0 ELSE LastOpen(end, H1Per5m),
         h4 |-> IF lens.h4 = 0 THEN 0 ELSE LastOpen(end, H4Per5m)]

\* What the position repository answers during one iteration: both calls
\* succeed, FindOpenPositionsBySymbol fails, or Create fails.
RepoAnswers == {"ok", "find fails", "create fails"}

\* One iteration of the candle loop of runSymbol (lines 129-173); lens are
\* the lengths of the 15m, 1h and 4h series runSymbol loaded.
RepoLoopBody(e0, c, ret, db, lens) ==
    LET open == FindOpenPositionsBySymbol(e0.positions, e0.cur)
        e == IF open = {} THEN [e0 EXCEPT !.handed = HandedSeries(e0, lens)] ELSE e0
    IN  IF db = "find fails"
        THEN [e0 EXCEPT !.pc = "failed", !.out = ErrorOut("checking positions")]
        ELSE IF open # {}
        THEN [e EXCEPT !.positions =
                 [i \in 1 .. Len(e.positions) |->
                     IF i \in open
                     THEN [e.positions[i] EXCEPT
                              !.xHit = @ \/ shouldExitPosition(PositionAsTrade(e.positions[i]), c),
                              !.xNextTakeProfit =
                                  @ \/ (c.t = e.positions[i].OpenTime + 1
                                          /\ TakeProfitHit(PositionAsTrade(e.positions[i]), c))]
                     ELSE e.positions[i]]]
        ELSE IF ret.kind = "err" THEN [e EXCEPT !.pc = "failed", !.out = ErrorOut("analysis")]
        ELSE IF ret.kind = "panic" THEN [e EXCEPT !.pc = "panic"]
        ELSE IF ret.res.IsValid /\ db = "create fails"
        THEN [e EXCEPT !.pc = "failed", !.out = ErrorOut("creating position")]
        ELSE IF ret.res.IsValid
             THEN EngUpdateEquityCurve(
                      [e EXCEPT !.positions = Append1(@, NewPosition(ret.res, e.cur, c)),
                                !.live[e.cur] = @ + 1],
                      c.t)
             ELSE e

RepoData(used) ==
    {[ok |-> FALSE, len |-> 0, lens |-> FedLens]}
      \cup {[ok |-> TRUE, len |-> WarmUp + n, lens |-> l] :
                n \in 0 .. MaxCandles - used, l \in {FedLens, [FedLens EXCEPT !.m15 = 0]}}

\* RunBacktest calls runSymbol for the next symbol, which loads its series.
\* The lengths of the loaded series stay in mgrCall.lens for the candle loop.
RepoRunSymbol ==
    /\ eng.pc = "run" /\ eng.syms # <<>>
    /\ \E data \in RepoData(eng.used) :
          /\ eng' = RepoRunSymbolStart(eng, data)
          /\ mgrCall' = [mgrCall EXCEPT !.lens = data.lens]
    /\ UNCHANGED <<longMinConf, shortMinConf, mode, reversalDelta, sim, ind, cf, conc>>

\* A stop is requested from outside while RunBacktest runs (a deadline passes,
\* the caller gives up).  RunBacktest (line 53) and runSymbol take no context
\* or channel and read no flag: the request reaches no code, stop only records
\* that it was made (history).
StopRequest ==
    /\ mode = "repo"
    /\ eng.pc \in {"run", "sym"} /\ ~eng.stop
    /\ eng' = [eng EXCEPT !.stop = TRUE]
    /\ UNCHANGED <<longMinConf, shortMinConf, mgrCall, mode, reversalDelta, sim, ind, cf, conc>>

RepoCandle ==
    /\ eng.pc = "sym"
    /\ LET flat == FindOpenPositionsBySymbol(eng.positions, eng.cur) = {}
       IN  \E c \in (IF flat THEN FlatCandles ELSE Candles),
              sig \in (IF flat THEN BtSignals ELSE {CHOOSE s \in BtSignals : TRUE}),
              db \in RepoAnswers :
              LET ret == IF flat /\ db # "find fails"
                         THEN ManagerAnalyze(NoPosition, mgrCall.lens, sig, RInt(c.close),
                                             longMinConf, shortMinConf, reversalDelta)
                         ELSE MgrRet("none", NoResult, NotRun, NotRun)
              IN  /\ eng' = EngAdvance(RepoLoopBody(eng, CandleAt(c, eng.t), ret, db, mgrCall.lens))
                  /\ longMinConf' = MinConfAfter(ret.long, longMinConf)
                  /\ shortMinConf' = MinConfAfter(ret.short, shortMinConf)
    /\ UNCHANGED <<mgrCall, mode, reversalDelta, sim, ind, cf, conc>>

-----------------------------------------------------------------------------
(* The Simulator (src/unnamed/part_013).                                   *)
(* ProcessCandle is a public method that takes s.mu and priceCache.mu only *)
(* inside ensurePriceData, getPriceHistory, updateBalance and around the   *)
(* Trades append.  The goroutines of Callers call it; a call advances one  *)
(* step at a time, and a step is one critical section or one access to     *)
(* state the callers share without a lock: the positions map (lines 75,    *)
(* 154, 185), the fields of the Trade a map entry points to (162-174, 177, *)
(* 181) and balance (227).                                                 *)
(*                                                                         *)
(* The simulator is a record: balance, the positions map (per symbol the   *)
(* index in heap of the Trade it points to, 0 for no entry), heap (the     *)
(* Trade objects allocated by openPosition), results.Trades,               *)
(* results.EquityCurve, the price cache, run (per caller the frame of its  *)
(* call in progress), pc ("ready", "panic" once a call has panicked,       *)
(* "fault" once the runtime has ended the process on a concurrent map      *)
(* access), and history: calls (the calls of ProcessCandle started so      *)
(* far), open (the Trade objects stored in the map whose close has not     *)
(* reached line 185), overlap (per symbol, whether a call for it was       *)
(* started while another call for it was in progress) and last (what the   *)
(* call that returned last did).                                           *)

\* The goroutines calling into the Simulator and the handler.
Callers == {1, 2}

\* ensurePriceData loads the 24 hours before the candle: at most 7 candles
\* of the 4h series when they are spaced four hours apart.
H4PerDay == 7

\* The timeframes in the order ensurePriceData goes through them (line 257).
TimeFrames == <<"m5", "m15", "h1", "h4">>
NoLens == [m5 |-> 0, m15 |-> 0, h1 |-> 0, h4 |-> 0]

\* priceCache.data[symbol].  Of each series the model keeps its length (0: not
\* loaded, or loaded empty) and the time it was loaded at, which is the open
\* time of its latest candle (at); of all of them the analyzer outputs they
\* give (sig) and the close of the latest 5m candle.  err records that the last
\* ensurePriceData for the symbol returned an error (history).
NoCache == [lens |-> NoLens, at |-> NoLens, sig |-> CHOOSE s \in BtSignals : TRUE,
            close |-> 0, err |-> FALSE]

\* Every series of the symbol holds candles: ensurePriceData loads nothing.
CacheFull(cache) == \A i \in 1 .. Len(TimeFrames) : cache.lens[TimeFrames[i]] > 0

\* What a call that returned did: its path (kind), its arguments, the copy of
\* the Trade it appended to results.Trades (closed), and, as they were when
\* it returned, the Trade the map holds for the symbol (pos) and the number
\* of the symbol's open Trade objects (live); at is the open time of the
\* last candle of the 5m series the call got from getPriceHistory.
NoStep == [kind |-> "none", symbol |-> "", c |-> CandleAt([high |-> 0, low |-> 0, close |-> 0], 0),
           closed |-> NoTrade, pos |-> NoTrade, live |-> 0, at |-> 0]

\* The frame of a call of ProcessCandle: where it is (pc), its arguments, the
\* four series it got (their lengths, the analyzer outputs they give, the
\* close and the open time of the last 5m candle), the pointer read at line
\* 75 (pos, an index in heap), the manager's result, the path taken (kind),
\* the argument evaluated at line 177 (pnl), the size computed at line 142
\* and the Trade value appended at line 181 (closed).
NoFrame == [pc |-> "idle", symbol |-> "", c |-> NoStep.c, lens |-> NoLens,
            sig |-> NoCache.sig, close |-> 0, at |-> 0, pos |-> 0, res |-> NoResult,
            kind |-> "none", pnl |-> RZero, size |-> RZero, closed |-> NoTrade]

NewSimulator ==
    [pc |-> "ready", balance |-> RInt(InitialBalance),
     positions |-> [s \in Symbols |-> 0], heap |-> <<>>,
     trades |-> <<>>, equityCurve |-> <<>>,
     cache |-> [s \in Symbols |-> NoCache],
     run |-> [t \in Callers |-> NoFrame],
     calls |-> 0, open |-> {}, overlap |-> [s \in Symbols |-> FALSE], last |-> NoStep]

\* s.positions[symbol], dereferenced; NoTrade for nil.
PositionOf(s, symbol) ==
    IF s.positions[symbol] = 0 THEN NoTrade ELSE s.heap[s.positions[symbol]]

\* The symbol's positions that were opened and not yet closed.
SimLive(s, symbol) == Cardinality({i \in s.open : s.heap[i].Symbol = symbol})

\* A call for the symbol is in progress in a caller other than t.
Busy(s, t, symbol) ==
    \E u \in Callers \ {t} : s.run[u].pc # "idle" /\ s.run[u].symbol = symbol

\* ensurePriceData (247-271): each timeframe whose cached series is empty is
\* loaded, in order; the first failing load returns its error and leaves the
\* series loaded before it in the cache.  load.out[tf] is what
\* GetPricesByTimeFrame does for the timeframe: "err", "empty" (no rows, no
\* error) or "ok".
ensurePriceData(s, symbol, load) ==
    LET Walk[i \in 0 .. Len(TimeFrames)] ==
            IF i = 0 THEN [s.cache[symbol] EXCEPT !.err = FALSE]
            ELSE LET prev == Walk[i - 1]
                     tf == TimeFrames[i]
                 IN  IF prev.err \/ prev.lens[tf] > 0 THEN prev
                     ELSE IF load.out[tf] = "err" THEN [prev EXCEPT !.err = TRUE]
                     ELSE IF load.out[tf] = "empty" THEN prev
                     ELSE [prev EXCEPT !.lens[tf] = load.lens[tf],
                                       !.at[tf] = load.at,
                                       !.sig = load.sig,
                                       !.close = IF tf = "m5" THEN load.close ELSE @]
    IN  [s EXCEPT !.cache[symbol] = Walk[Len(TimeFrames)]]

\* getPriceHistory (273-288): the candles of the cached series that open at
\* currentTime or before, as a length.  The candles of a series are one call
\* time apart, so a series loaded by a later call loses the candles that open
\* after currentTime.  The key exists after ensurePriceData returned nil, so
\* the error of line 287 is not returned inside ProcessCandle.
getPriceHistory(cache, tf, currentTime) ==
    IF cache.at[tf] <= currentTime THEN cache.lens[tf]
    ELSE IF cache.lens[tf] > cache.at[tf] - currentTime
         THEN cache.lens[tf] - (cache.at[tf] - currentTime)
    ELSE 0

\* ProcessCandle without the exit test of line 78.
checkTPSLSkipped(pos, c) == FALSE
checkTPSL(pos, c) == TakeProfitHit(pos, c) \/ StopLossHit(pos, c)

\* determineExitPrice without its fall-through to the candle's close.
determineExitPriceAtLevel(pos, c) ==
    IF TakeProfitHit(pos, c) THEN pos.TakeProfit ELSE pos.StopLoss
determineExitPrice(pos, c) ==
    IF TakeProfitHit(pos, c) THEN pos.TakeProfit
    ELSE IF StopLossHit(pos, c) THEN pos.StopLoss
    ELSE RInt(c.close)

\* determineExitReason with the fall-through of the Engine's getExitReason.
determineExitReasonUnknown(pos, c) ==
    IF TakeProfitHit(pos, c) THEN "take_profit"
    ELSE IF StopLossHit(pos, c) THEN "stop_loss"
    ELSE "unknown"
determineExitReason(pos, c) ==
    IF TakeProfitHit(pos, c) THEN "take_profit"
    ELSE IF StopLossHit(pos, c) THEN "stop_loss"
    ELSE "reversal"

calculatePositionSize(s, price) ==
    RDiv(RMul(RMul(s.balance, RFrac(RiskPerTradePct, 100)), RInt(Leverage)), price)

\* updateBalance (231-245), one critical section of s.mu: the equity point
\* carries the wall-clock time of the call.
SimUpdateBalance(s, pnl) ==
    LET b == RAdd(s.balance, pnl)
        bal == IF RLeq(b, RZero) THEN RZero ELSE b
    IN  [s EXCEPT !.balance = bal,
                  !.equityCurve = Append1(@, [Timestamp |-> s.calls, Balance |-> bal])]

\* The writes closePosition makes to the Trade it was given, in the order of
\* lines 162, 163, 164 and 174.  exitPrice and reason are the locals of lines
\* 159 and 160, computed from the candle and from fields of the Trade that
\* are not written after line 154.
CloseWrites == <<"exitTime", "exitPrice", "reason", "pnl">>
AfterWrite == [exitTime |-> "exitPrice", exitPrice |-> "reason", reason |-> "pnl", pnl |-> "arg"]
CloseWrite(pos, field, c) ==
    LET exitPrice == determineExitPrice(pos, c)
    IN  CASE field = "exitTime"  -> [pos EXCEPT !.ExitTime = c.t]
          [] field = "exitPrice" -> [pos EXCEPT !.ExitPrice = exitPrice]
          [] field = "reason"    -> [pos EXCEPT !.Reason = determineExitReason(pos, c)]
          [] field = "pnl"       ->
                [pos EXCEPT !.PnL = RMul(RMul(pos.Size, PnlPercent(pos, exitPrice)),
                                         RInt(Leverage))]

\* The Trade value of line 144.
NewTrade(symbol, result, c, size) ==
    [NoTrade EXCEPT
        !.Symbol = symbol,
        !.EntryTime = c.t,
        !.Side = result.Direction,
        !.EntryPrice = RInt(c.close),
        !.Size = size,
        !.StopLoss = result.StopLoss,
        !.TakeProfit = result.TakeProfit,
        !.xConf = result.Confidence]

\* The call enters closePosition (line 158) or openPosition (line 141).
closePosition(r, kind) == [r EXCEPT !.pc = "exitTime", !.kind = kind]
openPosition(r, result, kind) == [r EXCEPT !.pc = "size", !.kind = kind, !.res = result]

\* reversePosition, with the close it makes first left out.
reversePositionKeepsOld(r, result) == openPosition(r, result, "reverse")
\* reversePosition (290-296): closePosition, and openPosition once it is done
\* (the step of line 185 goes on to line 295 when the path is "reverse").
reversePosition(r, result) == closePosition([r EXCEPT !.res = result], "reverse")

\* The position handed to the manager (lines 83-88): Confidence is not set.
modelPos(pos) == [Side |-> pos.Side, Confidence |-> 0]

\* The call of caller t returns.
Return(s, t, kind) ==
    LET r == s.run[t]
    IN  [s EXCEPT !.run[t] = NoFrame,
                  !.last = [kind |-> kind, symbol |-> r.symbol, c |-> r.c,
                            closed |-> r.closed, pos |-> PositionOf(s, r.symbol),
                            live |-> SimLive(s, r.symbol), at |-> r.at]]

MaxSimCalls == 3              \* calls of ProcessCandle in a run

\* What the loads of one call give: every load succeeds, with the analyzer
\* outputs of SimSignals or with a 4h series of a day's length, or the load
\* of the 15m series fails or comes back empty.
SimSignals == {s \in BtSignals : s.volRatio = 80 /\ s.rsi = 50}
AllOk == [tf \in {"m5", "m15", "h1", "h4"} |-> "ok"]
SimLoads(c) ==
    {[out |-> AllOk, lens |-> [FedLens EXCEPT !.h4 = H4PerDay], sig |-> NoCache.sig,
      close |-> c.close, at |-> c.t]}
      \cup {[out |-> AllOk, lens |-> FedLens, sig |-> sig, close |-> c.close, at |-> c.t] :
                sig \in SimSignals}
      \cup {[out |-> [AllOk EXCEPT ![tf] = how], lens |-> FedLens, sig |-> NoCache.sig,
             close |-> c.close, at |-> c.t] :
                tf \in {"m15"}, how \in {"err", "empty"}}

\* The candles a symbol's series are loaded on: one close, which keeps the
\* sizes and balances of a run within the integers of the checker.
LoadCandles == {c \in FlatCandles : c.close = 100}

\* The candles of a call for the symbol: the high and the low of a candle are
\* read only by the exit test of an open position, for which the candles of
\* one close cover every combination of levels met.
SimCandles(s, symbol) ==
    IF s.cache[symbol].lens.m5 = 0 THEN LoadCandles
    ELSE IF s.positions[symbol] = 0 THEN FlatCandles
    ELSE {c \in Candles : c.close = 100}

\* Caller t calls ProcessCandle, for any symbol and candle (line 50), and goes
\* through ensurePriceData, one critical section of priceCache.mu (line 52).
SimCall(t) ==
    /\ sim.pc = "ready" /\ sim.run[t].pc = "idle" /\ sim.calls < MaxSimCalls
    /\ \E symbol \in Symbols :
       \E c \in SimCandles(sim, symbol) :
          \E load \in (IF CacheFull(sim.cache[symbol])
                       THEN {CHOOSE l \in SimLoads(CandleAt(c, sim.calls + 1)) : TRUE}
                       ELSE SimLoads(CandleAt(c, sim.calls + 1))) :
             LET s0 == ensurePriceData(sim, symbol, load)
                 s1 == [s0 EXCEPT
                           !.calls = @ + 1,
                           !.overlap[symbol] = @ \/ Busy(sim, t, symbol),
                           !.run[t] = [NoFrame EXCEPT !.pc = "m5", !.symbol = symbol,
                                                      !.c = CandleAt(c, sim.calls + 1)]]
             IN  sim' = IF s0.cache[symbol].err THEN Return(s1, t, "error") ELSE s1
    /\ UNCHANGED <<longMinConf, shortMinConf, mgrCall, mode, reversalDelta, eng, ind, cf, conc>>

\* One of the four getPriceHistory calls of lines 57-69, each a critical
\* section of priceCache.mu (read lock).
AfterRead == [m5 |-> "m15", m15 |-> "h1", h1 |-> "h4", h4 |-> "lookup"]
SimGetPriceHistory(t) ==
    /\ sim.pc = "ready" /\ sim.run[t].pc \in DOMAIN AfterRead
    /\ LET r == sim.run[t]
           tf == r.pc
           cache == sim.cache[r.symbol]
       IN  sim' = [sim EXCEPT !.run[t] =
                      [r EXCEPT !.pc = AfterRead[tf],
                                !.lens[tf] = getPriceHistory(cache, tf, r.c.t),
                                !.close = IF tf = "m5" THEN cache.close ELSE @,
                                !.at = IF tf # "m5" THEN @
                                       ELSE IF cache.at.m5 <= r.c.t THEN cache.at.m5
                                       ELSE r.c.t,
                                !.sig = IF tf = "h4" THEN cache.sig ELSE @]]
    /\ UNCHANGED <<longMinConf, shortMinConf, mgrCall, mode, reversalDelta, eng, ind, cf, conc>>

\* The map read of line 75 and, for a position, the exit test of line 78,
\* which reads the candle and fields of the Trade that are not written after
\* line 154.
SimLookup(t) ==
    /\ sim.pc = "ready" /\ sim.run[t].pc = "lookup"
    /\ LET r == [sim.run[t] EXCEPT !.pos = sim.positions[sim.run[t].symbol]]
       IN  sim' = [sim EXCEPT !.run[t] =
                      IF r.pos # 0 /\ checkTPSL(sim.heap[r.pos], r.c)
                      THEN closePosition(r, "exit")
                      ELSE [r EXCEPT !.pc = "analyze"]]
    /\ UNCHANGED <<longMinConf, shortMinConf, mgrCall, mode, reversalDelta, eng, ind, cf, conc>>

\* The manager call of line 91 or 107 on the series the call holds, and the
\* branch taken on its result.  The evaluators write the constant 0.3 to
\* their minConfidence and read it back: evaluations running side by side
\* write and read the same value.  A panic of an analyzer ends the process.
SimAnalyze(t) ==
    /\ sim.pc = "ready" /\ sim.run[t].pc = "analyze"
    /\ LET r == sim.run[t]
           ret == ManagerAnalyze(IF r.pos # 0 THEN modelPos(sim.heap[r.pos]) ELSE NoPosition,
                                 r.lens, r.sig, RInt(r.close),
                                 longMinConf, shortMinConf, reversalDelta)
       IN  /\ sim' = IF ret.kind = "panic"
                     THEN [Return(sim, t, "panic") EXCEPT !.pc = "panic"]
                     ELSE IF ret.kind = "err" THEN Return(sim, t, "error")
                     ELSE IF ~ret.res.IsValid THEN Return(sim, t, "hold")
                     ELSE IF r.pos # 0
                     THEN [sim EXCEPT !.run[t] = reversePosition(r, ret.res)]
                     ELSE [sim EXCEPT !.run[t] = openPosition(r, ret.res, "open")]
           /\ longMinConf' = MinConfAfter(ret.long, longMinConf)
           /\ shortMinConf' = MinConfAfter(ret.short, shortMinConf)
    /\ UNCHANGED <<mgrCall, mode, reversalDelta, eng, ind, cf, conc>>

\* closePosition writes one field of the Trade (line 162, 163, 164 or 174).
SimCloseWrite(t) ==
    /\ sim.pc = "ready" /\ sim.run[t].pc \in DOMAIN AfterWrite
    /\ LET r == sim.run[t]
       IN  sim' = [sim EXCEPT !.heap[r.pos] = CloseWrite(@, r.pc, r.c),
                              !.run[t].pc = AfterWrite[r.pc]]
    /\ UNCHANGED <<longMinConf, shortMinConf, mgrCall, mode, reversalDelta, eng, ind, cf, conc>>

\* Line 177 reads pos.PnL for the argument of updateBalance.
SimReadPnL(t) ==
    /\ sim.pc = "ready" /\ sim.run[t].pc = "arg"
    /\ sim' = [sim EXCEPT !.run[t].pnl = sim.heap[sim.run[t].pos].PnL,
                          !.run[t].pc = "balance"]
    /\ UNCHANGED <<longMinConf, shortMinConf, mgrCall, mode, reversalDelta, eng, ind, cf, conc>>

\* updateBalance (line 177).
SimBalance(t) ==
    /\ sim.pc = "ready" /\ sim.run[t].pc = "balance"
    /\ sim' = [SimUpdateBalance(sim, sim.run[t].pnl) EXCEPT !.run[t].pc = "trades"]
    /\ UNCHANGED <<longMinConf, shortMinConf, mgrCall, mode, reversalDelta, eng, ind, cf, conc>>

\* Lines 180-182: the Trade, as it is now, is copied to results.Trades in a
\* critical section of s.mu.
SimAppendTrade(t) ==
    /\ sim.pc = "ready" /\ sim.run[t].pc = "trades"
    /\ LET r == sim.run[t]
           copy == [sim.heap[r.pos] EXCEPT !.xHigh = r.c.high, !.xLow = r.c.low]
       IN  sim' = [sim EXCEPT !.trades = Append1(@, copy),
                              !.run[t].closed = copy,
                              !.run[t].pc = "delete"]
    /\ UNCHANGED <<longMinConf, shortMinConf, mgrCall, mode, reversalDelta, eng, ind, cf, conc>>

\* Line 185: the entry of the Trade's symbol is deleted from the map, whatever
\* it points to now.  closePosition returns: to checkTPSL and out of
\* ProcessCandle (line 79), or to reversePosition, which goes on to
\* openPosition (line 295).
SimDelete(t) ==
    /\ sim.pc = "ready" /\ sim.run[t].pc = "delete"
    /\ LET r == sim.run[t]
           s1 == [sim EXCEPT !.positions[sim.heap[r.pos].Symbol] = 0,
                             !.open = @ \ {r.pos}]
       IN  sim' = IF r.kind = "reverse"
                  THEN [s1 EXCEPT !.run[t] = openPosition(r, r.res, "reverse")]
                  ELSE Return(s1, t, r.kind)
    /\ UNCHANGED <<longMinConf, shortMinConf, mgrCall, mode, reversalDelta, eng, ind, cf, conc>>

\* Line 142: calculatePositionSize reads balance, with no lock.
SimSize(t) ==
    /\ sim.pc = "ready" /\ sim.run[t].pc = "size"
    /\ sim' = [sim EXCEPT !.run[t].size =
                              calculatePositionSize(sim, sim.run[t].res.EntryPrice),
                          !.run[t].pc = "store"]
    /\ UNCHANGED <<longMinConf, shortMinConf, mgrCall, mode, reversalDelta, eng, ind, cf, conc>>

\* Lines 144-155: the new Trade is allocated and stored in the map; the call
\* returns.
SimStore(t) ==
    /\ sim.pc = "ready" /\ sim.run[t].pc = "store"
    /\ LET r == sim.run[t]
           p == Len(sim.heap) + 1
           s1 == [sim EXCEPT !.heap = Append1(@, NewTrade(r.symbol, r.res, r.c, r.size)),
                             !.positions[r.symbol] = p,
                             !.open = @ \cup {p}]
       IN  sim' = Return(s1, t, r.kind)
    /\ UNCHANGED <<longMinConf, shortMinConf, mgrCall, mode, reversalDelta, eng, ind, cf, conc>>

\* Two callers are at an access of the positions map and one of the accesses
\* is a write (line 154 or 185): the Go runtime may detect it and end the
\* process (fatal error: concurrent map writes, or concurrent map read and
\* map write).
MapReads == {"lookup"}
MapWrites == {"store", "delete"}
SimFault ==
    /\ sim.pc = "ready"
    /\ \E t \in Callers, u \in Callers :
          /\ t # u
          /\ sim.run[t].pc \in MapWrites
          /\ sim.run[u].pc \in MapReads \cup MapWrites
    /\ sim' = [sim EXCEPT !.pc = "fault"]
    /\ UNCHANGED <<longMinConf, shortMinConf, mgrCall, mode, reversalDelta, eng, ind, cf, conc>>

SimStep(t) ==
    \/ SimCall(t)
    \/ SimGetPriceHistory(t)
    \/ SimLookup(t)
    \/ SimAnalyze(t)
    \/ SimCloseWrite(t)
    \/ SimReadPnL(t)
    \/ SimBalance(t)
    \/ SimAppendTrade(t)
    \/ SimDelete(t)
    \/ SimSize(t)
    \/ SimStore(t)


-----------------------------------------------------------------------------
(* Indicators (src/internal/services/indicators).                          *)
(* A Go slice is a sequence; index i of the code is index i + 1 here.  A   *)
(* call ends in one of three ways: it returns nil, it returns values, or   *)
(* it panics (an index outside a slice, or any index of a nil slice).      *)

Nil == [kind |-> "nil"]
Panic == [kind |-> "panic"]
Values(v) == [kind |-> "values", v |-> v]

\* make([]float64, n)
Zeros(n) == [i \in 1 .. n |-> RZero]

SumTo(prices, n) ==
    LET S[i \in 0 .. n] == IF i = 0 THEN RZero ELSE RAdd(S[i - 1], prices[i])
    IN  S[n]

validateInputs(prices, period) ==
    ~(Len(prices) = 0 \/ period <= 0 \/ Len(prices) < period)

\* the smoothing factor with period in place of period + 1
getMultiplierOfPeriod(period) == RFrac(2, period)
getMultiplier(period) == RFrac(2, period + 1)

calculateInitialSMA(prices, period) == RDiv(SumTo(prices, period), RInt(period))

calculatePoint(price, prevEMA, multiplier) ==
    RAdd(RMul(RSub(price, prevEMA), multiplier), prevEMA)

\* EMAService.Calculate: nil, or a slice as long as prices whose entries before
\* index period - 1 are zero.
EMACalculate(prices, period) ==
    IF ~validateInputs(prices, period) THEN Nil
    ELSE LET E[i \in 1 .. Len(prices)] ==
                 IF i < period THEN RZero
                 ELSE IF i = period THEN calculateInitialSMA(prices, period)
                 ELSE calculatePoint(prices[i], E[i - 1], getMultiplier(period))
         IN  Values([i \in 1 .. Len(prices) |-> E[i]])

\* gains and losses of RSIService.Calculate (lines 42-53)
Gains(prices) ==
    [i \in 1 .. Len(prices) |->
        IF i > 1 /\ RLess(prices[i - 1], prices[i]) THEN RSub(prices[i], prices[i - 1])
        ELSE RZero]
Losses(prices) ==
    [i \in 1 .. Len(prices) |->
        IF i > 1 /\ ~RLess(prices[i - 1], prices[i]) THEN RSub(prices[i - 1], prices[i])
        ELSE RZero]

\* the RSI line (lines 59-67), avgGain and avgLoss being slices
RsiLine(n, period, avgGain, avgLoss) ==
    [i \in 1 .. n |->
        IF i <= period THEN RZero
        ELSE IF avgLoss[i] = RZero THEN RInt(100)
        ELSE RSub(RInt(100),
                  RDiv(RInt(100), RAdd(RInt(1), RDiv(avgGain[i], avgLoss[i]))))]

\* RSIService.Calculate.  The loop of line 60 starts at index period and reads
\* avgLoss there; the loop of line 74 starts at period + smoothPeriod and
\* reads rsi and signal there.  Divergence is not modelled.
RSICalculate(prices, period, smoothPeriod) ==
    LET n == Len(prices)
        avgGain == EMACalculate(Gains(prices), period)
        avgLoss == EMACalculate(Losses(prices), period)
    IN  IF n < period + 1 THEN Nil
        ELSE IF period < n /\ (avgLoss.kind = "nil" \/ period < 0) THEN Panic
        ELSE LET rsi == RsiLine(n, period, avgGain.v, avgLoss.v)
                 signal == EMACalculate(rsi, smoothPeriod)
                 first == period + smoothPeriod
             IN  IF first < n /\ (first < 0 \/ signal.kind = "nil") THEN Panic
                 ELSE Values([RSI |-> rsi, Signal |-> signal,
                              Histogram |-> [i \in 1 .. n |->
                                  IF i <= first THEN RZero
                                  ELSE RSub(rsi[i], signal.v[i])]])

ValidatePeriods(prices, fastPeriod, slowPeriod, signalPeriod) ==
    /\ Len(prices) >= slowPeriod + signalPeriod - 1
    /\ fastPeriod > 0
    /\ slowPeriod > fastPeriod
    /\ signalPeriod > 0

\* MACDService.Calculate
MACDCalculate(prices, fastPeriod, slowPeriod, signalPeriod) ==
    IF ~ValidatePeriods(prices, fastPeriod, slowPeriod, signalPeriod) THEN Nil
    ELSE LET n == Len(prices)
             fastEMA == EMACalculate(prices, fastPeriod)
             slowEMA == EMACalculate(prices, slowPeriod)
         IN  IF slowPeriod - 1 < n /\ (fastEMA.kind = "nil" \/ slowEMA.kind = "nil")
             THEN Panic
             ELSE LET macdLine == [i \in 1 .. n |->
                                      IF i < slowPeriod THEN RZero
                                      ELSE RSub(fastEMA.v[i], slowEMA.v[i])]
                      signalLine == EMACalculate(macdLine, signalPeriod)
                      first == slowPeriod + signalPeriod - 2
                  IN  IF first < n /\ signalLine.kind = "nil" THEN Panic
                      ELSE Values([MACD |-> macdLine, Signal |-> signalLine,
                                   Histogram |-> [i \in 1 .. n |->
                                       IF i <= first THEN RZero
                                       ELSE RSub(macdLine[i], signalLine.v[i])]])

\* BBandsService.Calculate.  The loop of line 30 starts at index period - 1,
\* slices prices[i-period+1 : i+1] and writes middle[i].  Of the bands the
\* middle one is modelled (the others take a square root).
BBandsCalculate(prices, period) ==
    LET n == Len(prices)
    IN  IF n < period THEN Nil
        ELSE IF period - 1 < n /\ period <= 0 THEN Panic
        ELSE Values([Middle |-> [i \in 1 .. n |->
                        IF i < period THEN RZero
                        ELSE RDiv(RSub(SumTo(prices, i), SumTo(prices, i - period)),
                                  RInt(period))]])

MaxSeries == 5               \* longest price series handed to an indicator
MaxPeriod == 3               \* largest period handed to an indicator

Ramp(n) == [i \in 1 .. n |-> RInt(i)]
IndSeries ==
    {Ramp(n) : n \in 0 .. MaxSeries}
      \cup UNION {[1 .. n -> {RInt(1), RInt(2), RInt(3)}] : n \in 1 .. 3}
IndPeriods == -1 .. MaxPeriod

NoIndCall == [fn |-> "none", prices |-> <<>>, period |-> 0, p2 |-> 0, p3 |-> 0, out |-> Nil]
IndCall(fn, prices, period, p2, p3, out) ==
    [fn |-> fn, prices |-> prices, period |-> period, p2 |-> p2, p3 |-> p3, out |-> out]

EmaCall ==
    /\ ind.fn = "none"
    /\ \E prices \in IndSeries, period \in IndPeriods :
          ind' = IndCall("EMA", prices, period, 0, 0, EMACalculate(prices, period))
    /\ UNCHANGED <<longMinConf, shortMinConf, mgrCall, mode, reversalDelta, eng, sim, cf, conc>>

RsiCall ==
    /\ ind.fn = "none"
    /\ \E prices \in IndSeries, period \in IndPeriods, smoothPeriod \in IndPeriods :
          ind' = IndCall("RSI", prices, period, smoothPeriod, 0,
                         RSICalculate(prices, period, smoothPeriod))
    /\ UNCHANGED <<longMinConf, shortMinConf, mgrCall, mode, reversalDelta, eng, sim, cf, conc>>

MacdCall ==
    /\ ind.fn = "none"
    /\ \E prices \in IndSeries, fastPeriod \in IndPeriods, slowPeriod \in IndPeriods,
          signalPeriod \in IndPeriods :
          ind' = IndCall("MACD", prices, fastPeriod, slowPeriod, signalPeriod,
                         MACDCalculate(prices, fastPeriod, slowPeriod, signalPeriod))
    /\ UNCHANGED <<longMinConf, shortMinConf, mgrCall, mode, reversalDelta, eng, sim, cf, conc>>

BBandsCall ==
    /\ ind.fn = "none"
    /\ \E prices \in IndSeries, period \in IndPeriods :
          ind' = IndCall("BBands", prices, period, 0, 0, BBandsCalculate(prices, period))
    /\ UNCHANGED <<longMinConf, shortMinConf, mgrCall, mode, reversalDelta, eng, sim, cf, conc>>

-----------------------------------------------------------------------------
(* Confidence values (analysis and strategy packages).                     *)
(* A float64 is a finite value (an exact rational), NaN, +Inf or -Inf;     *)
(* the operators below follow IEEE 754 division and Go's math.Min and      *)
(* math.Max on the special values.                                         *)

FNum(q) == [k |-> "num", q |-> q]
NaN == [k |-> "nan", q |-> RZero]
PosInf == [k |-> "+inf", q |-> RZero]
NegInf == [k |-> "-inf", q |-> RZero]

\* a / b for finite a and b
FDiv(a, b) ==
    IF b # RZero THEN FNum(RDiv(a, b))
    ELSE IF a = RZero THEN NaN
    ELSE IF RLess(RZero, a) THEN PosInf ELSE NegInf

\* x + q and x * q for a finite q (q > 0 in the product)
FAddC(x, q) == IF x.k = "num" THEN FNum(RAdd(x.q, q)) ELSE x
FMulC(x, q) == IF x.k = "num" THEN FNum(RMul(x.q, q)) ELSE x

FAdd(x, y) ==
    IF x.k = "nan" \/ y.k = "nan" THEN NaN
    ELSE IF x.k = "num" /\ y.k = "num" THEN FNum(RAdd(x.q, y.q))
    ELSE IF x.k = "num" THEN y
    ELSE IF y.k = "num" \/ y.k = x.k THEN x
    ELSE NaN

FLess(x, y) ==
    /\ x.k # "nan" /\ y.k # "nan" /\ x # y
    /\ \/ x.k = "-inf"
       \/ y.k = "+inf"
       \/ x.k = "num" /\ y.k = "num" /\ RLess(x.q, y.q)

\* math.Min and math.Max
FMin(x, y) ==
    IF x.k = "-inf" \/ y.k = "-inf" THEN NegInf
    ELSE IF x.k = "nan" \/ y.k = "nan" THEN NaN
    ELSE IF FLess(x, y) THEN x ELSE y
FMax(x, y) ==
    IF x.k = "+inf" \/ y.k = "+inf" THEN PosInf
    ELSE IF x.k = "nan" \/ y.k = "nan" THEN NaN
    ELSE IF FLess(y, x) THEN x ELSE y

RAbs(q) == IF RLess(q, RZero) THEN RNeg(q) ELSE q

\* VolumeAnalyzer.calculateConfidence
VolumeConfidence(volumeRatio, tradeRatio, avgTradeSize, trendStrength) ==
    LET minVolumeRatio == RFrac(13, 10)
        minTradeRatio == RFrac(12, 10)
        volComponent ==
            FMax(FNum(RZero),
                 FMin(FMulC(FAddC(volumeRatio, RNeg(minVolumeRatio)),
                            RDiv(RInt(1), RSub(RInt(2), minVolumeRatio))),
                      FNum(RInt(1))))
        tradeComponent ==
            FMax(FNum(RZero),
                 FMin(FMulC(FAddC(tradeRatio, RNeg(minTradeRatio)),
                            RDiv(RInt(1), RSub(RInt(2), minTradeRatio))),
                      FNum(RInt(1))))
        sizeComponent == FMin(FMulC(avgTradeSize, RFrac(1, 1000)), FNum(RInt(1)))
        trendComponent == FNum(RMul(trendStrength, RFrac(3, 10)))
    IN  FAdd(FAdd(FAdd(FMulC(volComponent, RFrac(4, 10)),
                       FMulC(tradeComponent, RFrac(2, 10))),
                  FMulC(sizeComponent, RFrac(1, 10))),
             trendComponent)

\* What analyzeTimeframe reads from a window of candles: Volume and TradeCount
\* of the last candle, TradeCount of the one before, the weighted average
\* volume of the window and the number of candles whose volume rose.
Frame(volume, tradeCount, prevTradeCount, avgVolume, rises) ==
    [volume |-> volume, tradeCount |-> tradeCount, prevTradeCount |-> prevTradeCount,
     avgVolume |-> avgVolume, rises |-> rises]

\* VolumeAnalyzer.analyzeTimeframe: the confidence of one timeframe.
VolumeTimeframe(f, window) ==
    VolumeConfidence(FDiv(RInt(f.volume), RInt(f.avgVolume)),
                     FDiv(RInt(f.tradeCount), RInt(f.prevTradeCount)),
                     FDiv(RInt(f.volume), RInt(f.tradeCount)),
                     RFrac(f.rises, window - 1))

\* VolumeAnalyzer.Analyze: VolumeData.Confidence.
VolumeAnalyze(f5, f15, f1h) ==
    FAdd(FAdd(FMulC(VolumeTimeframe(f5, VolWindow), RFrac(35, 100)),
              FMulC(VolumeTimeframe(f15, VolWindow), RFrac(45, 100))),
         FMulC(VolumeTimeframe(f1h, VolWindow1h), RFrac(20, 100)))

\* calculateConfidence of TechnicalAnalysis.go: rsi is a whole number, emaSlope
\* a rational.
TechnicalConfidence(emaDirection, emaSlope, rsi) ==
    LET ema == IF emaDirection # 0
               THEN RMul(RMul(RFrac(4, 10), RAbs(emaSlope)), RInt(100))
               ELSE RZero
        osc == IF rsi > 70 \/ rsi < 30 THEN RFrac(3, 10)
               ELSE IF rsi > 60 \/ rsi < 40 THEN RFrac(2, 10)
               ELSE RZero
    IN  FMin(FNum(RAdd(ema, osc)), FNum(RInt(1)))

\* TechnicalAnalyzer.weightConfidences
weightConfidences(m5, m15, m1h, m4h) ==
    FAdd(FAdd(FAdd(FMulC(m5, RFrac(30, 100)), FMulC(m15, RFrac(35, 100))),
              FMulC(m1h, RFrac(20, 100))),
         FMulC(m4h, RFrac(15, 100)))

\* The last window closes of a series (prices[len(prices)-window:]).
Recent(prices, window) == SubSeq(prices, Len(prices) - window + 1, Len(prices))

\* The relative changes of calculateTimeframeMomentum (line 63), closes being
\* non-negative: a change from a close of 0 is +Inf, or NaN when the next
\* close is 0 too.
Changes(recent) ==
    [i \in 1 .. Len(recent) - 1 |->
        FDiv(RInt(recent[i + 1] - recent[i]), RInt(recent[i]))]

\* PriceAnalyzer.calculateTimeframeMomentum (55-70), as far as
\* calculateConfidence reads it: NaN, an infinity, or the sign of the finite
\* weighted mean.  The weights 0.9^i are positive, so an infinite change makes
\* the sum infinite, a NaN or two opposite infinities make it NaN, and finite
\* changes none of which is negative (positive) give a mean of their sign; the
\* series of the model have no finite changes of both signs in one window.
MomentumSign(prices, window) ==
    LET cs == Changes(Recent(prices, window))
        Has(k) == \E i \in 1 .. Len(cs) : cs[i].k = k
        Up == \E i \in 1 .. Len(cs) : cs[i].k = "num" /\ RLess(RZero, cs[i].q)
        Down == \E i \in 1 .. Len(cs) : cs[i].k = "num" /\ RLess(cs[i].q, RZero)
    IN  CASE Has("nan") \/ (Has("+inf") /\ Has("-inf")) -> NaN
          [] ~Has("nan") /\ Has("+inf") /\ ~Has("-inf") -> PosInf
          [] ~Has("nan") /\ Has("-inf") /\ ~Has("+inf") -> NegInf
          [] cs = <<>> -> NaN
          [] cs # <<>> /\ (\A i \in 1 .. Len(cs) : cs[i].k = "num") /\ ~Up /\ ~Down
               -> FNum(RZero)
          [] (\A i \in 1 .. Len(cs) : cs[i].k = "num") /\ Up /\ ~Down -> FNum(RInt(1))
          [] (\A i \in 1 .. Len(cs) : cs[i].k = "num") /\ Down /\ ~Up -> FNum(RInt(-1))

\* math.Sqrt of a rational that is the square of a rational.
ISqrt(n) == CHOOSE k \in 0 .. n : k * k = n
RSqrt(q) == [n |-> ISqrt(q.n), d |-> ISqrt(q.d)]

RECURSIVE SumSquares(_, _)
SumSquares(window, mean) ==
    IF window = <<>> THEN RZero
    ELSE LET diff == RDiv(RInt(window[1] - mean), RInt(mean))
         IN  RAdd(RMul(diff, diff), SumSquares(Tail(window), mean))

\* PriceAnalyzer.calculateVolatility (91-103): the root of the mean squared
\* distance of the last 12 closes from the last one, relative to it.  When the
\* last close is 0 the term of the last candle is 0 / 0, the sum is NaN and so
\* is the result.
VolatilityWindow == 12
calculateVolatility(prices) ==
    LET window == Recent(prices, VolatilityWindow)
        mean == window[Len(window)]
    IN  IF mean = 0 THEN NaN
        ELSE FNum(RSqrt(RDiv(SumSquares(window, mean), RInt(Len(window)))))

\* x - y, x * y
FSub(x, y) ==
    FAdd(x, CASE y.k = "num" -> FNum(RNeg(y.q))
              [] y.k = "+inf" -> NegInf
              [] y.k = "-inf" -> PosInf
              [] y.k = "nan" -> NaN)
FMul(x, y) ==
    IF x.k = "nan" \/ y.k = "nan" THEN NaN
    ELSE IF x.k = "num" /\ y.k = "num" THEN FNum(RMul(x.q, y.q))
    ELSE IF (x.k = "num" /\ x.q = RZero) \/ (y.k = "num" /\ y.q = RZero) THEN NaN
    ELSE IF FLess(x, FNum(RZero)) = FLess(y, FNum(RZero)) THEN PosInf ELSE NegInf

\* PriceAnalyzer.calculateConfidence (72-89): the momenta are compared with 0,
\* a comparison with NaN being false; math.Max(0, 1 - volatility) is NaN for a
\* NaN volatility, and so is its product with any alignment score.
PriceConfidence(m5, m15, m1h, m4h, volatility) ==
    LET Pos(m) == FLess(FNum(RZero), m)
        Neg(m) == FLess(m, FNum(RZero))
        alignmentScore ==
            IF (Pos(m5) /\ Pos(m15) /\ Pos(m1h) /\ Pos(m4h))
                 \/ (Neg(m5) /\ Neg(m15) /\ Neg(m1h) /\ Neg(m4h)) THEN RInt(1)
            ELSE IF (Pos(m15) /\ Pos(m1h) /\ Pos(m4h))
                      \/ (Neg(m15) /\ Neg(m1h) /\ Neg(m4h)) THEN RFrac(8, 10)
            ELSE IF (Pos(m1h) /\ Pos(m4h)) \/ (Neg(m1h) /\ Neg(m4h)) THEN RFrac(6, 10)
            ELSE RZero
        volatilityScore == FMax(FNum(RZero), FSub(FNum(RInt(1)), volatility))
    IN  FMul(FNum(alignmentScore), volatilityScore)

\* PriceAnalyzer.Analyze (23-53): the Confidence of the PriceData it returns.
MomentumWindow == 12
MomentumWindow1h == 6
PriceAnalyze(prices5m, prices15m, prices1h, prices4h) ==
    PriceConfidence(MomentumSign(prices5m, MomentumWindow),
                    MomentumSign(prices15m, MomentumWindow),
                    MomentumSign(prices1h, MomentumWindow1h),
                    MomentumSign(prices4h, MomentumWindow1h),
                    calculateVolatility(prices5m))

\* applyModifiers and calculateConfidence of the weighted LongStrategy
\* (ShortStrategy.go, lines 246-280): weights 0.30, 0.35 and 0.35.
applyModifiers(base, volumeRatio, crossAbove, emaDirection, volatility) ==
    LET c1 == IF FLess(FNum(RInt(2)), volumeRatio) THEN FMulC(base, RFrac(11, 10)) ELSE base
        c2 == IF crossAbove /\ emaDirection > 0 THEN FMulC(c1, RFrac(11, 10)) ELSE c1
    IN  IF FLess(FNum(RFrac(8, 10)), volatility) THEN FMulC(c2, RFrac(9, 10)) ELSE c2

WeightedConfidence(vol, volumeRatio, tech, crossAbove, emaDirection, price, volatility) ==
    LET base == FAdd(FAdd(FMulC(vol, RFrac(30, 100)), FMulC(tech, RFrac(35, 100))),
                     FMulC(price, RFrac(35, 100)))
    IN  FMin(applyModifiers(base, volumeRatio, crossAbove, emaDirection, volatility),
             FNum(RInt(1)))

\* The confidence of the shipped evaluators, as a float64 (tenths in the model).
EvaluatorConfidence(sig) == FNum(RFrac(calculateConfidence(sig), 10))

\* Windows of candles with non-negative volumes and trade counts: the last
\* candle may have no trade at all, and the average is 0 only when every
\* volume of the window is.
Volumes == {0, 500, 2000}
TradeCounts == {0, 1, 100}
AvgVolumes == {0, 500, 1000}
Rises == {0, 5, 11}
Frames ==
    {f \in [volume : Volumes, tradeCount : TradeCounts, prevTradeCount : TradeCounts,
            avgVolume : AvgVolumes, rises : Rises] :
        /\ f.avgVolume = 0 => (f.volume = 0 /\ f.rises = 0)
        /\ f.volume > 0 => f.tradeCount > 0}
QuietFrame == Frame(500, 100, 100, 500, 0)
BusyFrame == Frame(2000, 2, 1, 1000, 5)
OtherFrames == {QuietFrame, BusyFrame}

EmaSlopes == {RFrac(-3, 100), RZero, RFrac(1, 200), RFrac(1, 100)}
RsiReadings == {20, 35, 50, 65, 80}
TechFrames == [dir : {-1, 0, 1}, slope : EmaSlopes, rsi : RsiReadings]
OtherTechFrames == {[dir |-> 0, slope |-> RZero, rsi |-> 50],
                    [dir |-> 1, slope |-> RFrac(1, 100), rsi |-> 80]}
\* Series of closes, all finite and none negative.  Of the 5m series the last
\* twelve closes differ from the last one in three places at most, by one
\* amount, so that the volatility is half that relative amount: 0 (flat),
\* 1/4, 1/2, 9/10 and 3/2; a last close of 0 after closes of 100; closes of 0
\* inside the window.  The other series rise, fall or stay flat, or hold
\* closes of 0.
Flat(n, close) == [i \in 1 .. n |-> close]
Prices5m ==
    {Flat(13, 100),
     Flat(4, 50) \o Flat(9, 100),
     Flat(4, 200) \o Flat(9, 100),
     Flat(4, 280) \o Flat(9, 100),
     Flat(4, 400) \o Flat(9, 100),
     Flat(12, 100) \o <<0>>,
     Flat(13, 0),
     Flat(9, 100) \o <<0, 0, 0, 100>>,
     Flat(9, 100) \o <<0, 200, 200, 100>>}
OtherPrices(n) ==
    {Flat(n, 100),
     [i \in 1 .. n |-> 100 + i],
     [i \in 1 .. n |-> 100 - i],
     Flat(n - 2, 100) \o <<0, 100>>,
     Flat(n - 2, 100) \o <<0, 0>>}
Prices15m == OtherPrices(MomentumWindow + 1)
Prices1h == OtherPrices(MomentumWindow1h + 1)
Prices4h == {Flat(MomentumWindow1h, 100),
             [i \in 1 .. MomentumWindow1h |-> 100 + i],
             [i \in 1 .. MomentumWindow1h |-> 100 - i]}
Rising(n) == [i \in 1 .. n |-> 100 + i]
UnitValues == {FNum(RZero), FNum(RFrac(1, 2)), FNum(RInt(1))}

NoConfCall == [fn |-> "none", args |-> <<>>, out |-> FNum(RZero)]
ConfCall(fn, args, out) == [fn |-> fn, args |-> args, out |-> out]

\* VolumeAnalyzer.Analyze on three windows.
VolumeConfidenceCall ==
    /\ cf.fn = "none"
    /\ \E f5 \in Frames, f15 \in OtherFrames, f1h \in OtherFrames :
          cf' = ConfCall("volume", <<f5, f15, f1h>>,
                         VolumeAnalyze(f5, f15, [f1h EXCEPT !.rises = Min(@, VolWindow1h - 1)]))
    /\ UNCHANGED <<longMinConf, shortMinConf, mgrCall, mode, reversalDelta, eng, sim, ind, conc>>

\* TechnicalAnalyzer.Analyze on four series.
TechnicalConfidenceCall ==
    /\ cf.fn = "none"
    /\ \E t5 \in TechFrames, t15 \in OtherTechFrames, t1h \in OtherTechFrames,
          t4h \in OtherTechFrames :
          cf' = ConfCall("technical", <<t5, t15, t1h, t4h>>,
                         weightConfidences(TechnicalConfidence(t5.dir, t5.slope, t5.rsi),
                                           TechnicalConfidence(t15.dir, t15.slope, t15.rsi),
                                           TechnicalConfidence(t1h.dir, t1h.slope, t1h.rsi),
                                           TechnicalConfidence(t4h.dir, t4h.slope, t4h.rsi)))
    /\ UNCHANGED <<longMinConf, shortMinConf, mgrCall, mode, reversalDelta, eng, sim, ind, conc>>

\* PriceAnalyzer.Analyze.
PriceConfidenceCall ==
    /\ cf.fn = "none"
    /\ \E prices5m \in Prices5m, prices15m \in Prices15m, prices1h \in Prices1h,
          prices4h \in Prices4h :
          cf' = ConfCall("price", <<prices5m, prices15m, prices1h, prices4h>>,
                         PriceAnalyze(prices5m, prices15m, prices1h, prices4h))
    /\ UNCHANGED <<longMinConf, shortMinConf, mgrCall, mode, reversalDelta, eng, sim, ind, conc>>

\* calculateConfidence of the shipped Long or Short evaluator, which also sets
\* the evaluator's minConfidence (part_001, line 112; ShortStrategy.go, 109).
EvaluatorConfidenceCall ==
    /\ cf.fn = "none"
    /\ \E sig \in Signals, side \in {"long", "short"} :
          /\ cf' = ConfCall("evaluator", <<sig, side>>, EvaluatorConfidence(sig))
          /\ longMinConf' = IF side = "long" THEN LoweredMinConf ELSE longMinConf
          /\ shortMinConf' = IF side = "short" THEN LoweredMinConf ELSE shortMinConf
    /\ UNCHANGED <<mgrCall, mode, reversalDelta, eng, sim, ind, conc>>

\* calculateConfidence of the weighted LongStrategy on the analyzers' data:
\* the VolumeData of a 5m window, a technical confidence, and the PriceData
\* (Confidence and Volatility) of a 5m series with the other series flat or
\* rising.
WeightedConfidenceCall ==
    /\ cf.fn = "none"
    /\ \E f5 \in Frames, tech \in UnitValues, prices5m \in Prices5m,
          crossAbove \in BOOLEAN, aligned \in BOOLEAN :
          LET vol == VolumeAnalyze(f5, QuietFrame, QuietFrame)
              volumeRatio == FDiv(RInt(f5.volume), RInt(f5.avgVolume))
              other(n) == IF aligned THEN Rising(n) ELSE Flat(n, 100)
              price == PriceAnalyze(prices5m, other(MomentumWindow),
                                    other(MomentumWindow1h), other(MomentumWindow1h))
              volatility == calculateVolatility(prices5m)
          IN  cf' = ConfCall("weighted", <<f5, tech, prices5m, crossAbove, aligned>>,
                             WeightedConfidence(vol, volumeRatio, tech, crossAbove, 1,
                                                price, volatility))
    /\ UNCHANGED <<longMinConf, shortMinConf, mgrCall, mode, reversalDelta, eng, sim, ind, conc>>

-----------------------------------------------------------------------------
(* Parallel calls of Simulator.ProcessCandle (src/unnamed/part_013).       *)
(* A call is the sequence of the lock operations and of the reads and      *)
(* writes of shared fields that its path through the code makes, one       *)
(* operation per step.                                                     *)

Op(op, on) == [op |-> op, on |-> on]

\* ensurePriceData (247-271) under priceCache.mu.
EnsureOps ==
    <<Op("Lock", "priceCache.mu"), Op("Write", "priceCache"), Op("Unlock", "priceCache.mu")>>
\* getPriceHistory (273-288) under the read lock.
GetPriceHistoryOps ==
    <<Op("RLock", "priceCache.mu"), Op("Read", "priceCache"), Op("RUnlock", "priceCache.mu")>>
\* ProcessCandle calls it once per timeframe (lines 57, 61, 65, 69).
HistoryOps ==
    GetPriceHistoryOps \o GetPriceHistoryOps \o GetPriceHistoryOps \o GetPriceHistoryOps
\* pos := s.positions[symbol], line 75.
LookupOps == <<Op("Read", "positions")>>
\* closePosition (158-186): updateBalance (231-245), the append to
\* results.Trades under s.mu, and the delete from the positions map.
CloseOps ==
    <<Op("Lock", "mu"), Op("Write", "balance"), Op("Write", "equityCurve"), Op("Unlock", "mu"),
      Op("Lock", "mu"), Op("Write", "trades"), Op("Unlock", "mu"),
      Op("Write", "positions")>>
\* openPosition (141-156): calculatePositionSize reads s.balance, then the map
\* is written.
OpenOps == <<Op("Read", "balance"), Op("Write", "positions")>>

\* The fields of an evaluator that its Analyze accesses and every caller
\* shares: the evaluators belong to the one StrategyManager of the Simulator,
\* each has a TechnicalAnalyzer of its own with an EMAService and an RSIService,
\* and the RSIService has an EMAService of its own.
EmaValues(x) ==
    IF x = "long" THEN "long.technicalAnalyzer.ema.values"
    ELSE "short.technicalAnalyzer.ema.values"
RsiEmaValues(x) ==
    IF x = "long" THEN "long.technicalAnalyzer.rsi.ema.values"
    ELSE "short.technicalAnalyzer.rsi.ema.values"
MinConfidenceOf(x) == IF x = "long" THEN "long.minConfidence" ELSE "short.minConfidence"

\* TechnicalAnalyzer.analyzeTimeframe (TechnicalAnalysis.go, 49-140) on a
\* series of 21 candles or more: a.ema.Calculate for the periods 8 and 21
\* (lines 53, 54) and a.rsi.Calculate (line 76), which calls its EMAService
\* for the average gain, the average loss and the signal line (RSI.go, 56, 57,
\* 70).  Every Calculate whose inputs are valid assigns s.values (EMA.go,
\* line 40) with no lock; nothing reads the field.  log.Printf (line 97)
\* synchronises inside the log package and touches no field of the program.
TimeframeOps(x) ==
    <<Op("Write", EmaValues(x)), Op("Write", EmaValues(x)),
      Op("Write", RsiEmaValues(x)), Op("Write", RsiEmaValues(x)),
      Op("Write", RsiEmaValues(x))>>

\* TechnicalAnalyzer.Analyze (29-47): the 5m, 15m, 1h and 4h series in turn.
\* The VolumeAnalyzer and the PriceAnalyzer, called before and after it, only
\* read their arguments and their weights, which nothing writes.
TechnicalOps(x) ==
    TimeframeOps(x) \o TimeframeOps(x) \o TimeframeOps(x) \o TimeframeOps(x)

\* The writes of s.values that TechnicalAnalyzer.Analyze makes before line 58
\* or 59 indexes a nil slice, given that the VolumeAnalyzer accepted the series
\* (12 candles or more of 5m and of 15m, 6 or more of 1h): Calculate(closes, 8)
\* writes when the series has 8 candles or more, Calculate(closes, 21) returns
\* nil without writing.  1: the 5m series is too short; 6: the 15m series;
\* 10, 11: the 1h series, of fewer than 8 candles or not; 15, 16: the 4h series.
PanicWrites == {1, 6, 10, 11, 15, 16}

\* What an evaluator's Analyze (part_001 42-84, ShortStrategy.go 41-83) does
\* when its analyzers return: the writes of the TechnicalAnalyzer and, once
\* the setup test has passed, calculateConfidence writes 0.3 to the
\* evaluator's minConfidence (part_001 line 112, ShortStrategy.go line 109)
\* and the comparison that follows reads it (part_001 line 66,
\* ShortStrategy.go line 65).  StrategyManager has no mutex and ProcessCandle
\* holds none while it calls Analyze (lines 91, 107).
LongAnalyzeOps(setup) ==
    TechnicalOps("long")
      \o (IF setup THEN <<Op("Write", MinConfidenceOf("long")),
                          Op("Read", MinConfidenceOf("long"))>>
          ELSE <<>>)
ShortAnalyzeOps(setup) ==
    TechnicalOps("short")
      \o (IF setup THEN <<Op("Write", MinConfidenceOf("short")),
                          Op("Read", MinConfidenceOf("short"))>>
          ELSE <<>>)

\* analyzeReversal compares a valid result with the margin (part_001 line 247).
MarginOps == <<Op("Read", "reversalDelta")>>

\* The paths of ProcessCandle.  "error": ensurePriceData failed;
\* "analyzeError": the VolumeAnalyzer of the first evaluator called returned an
\* error; "panicLong", "panicShort": the TechnicalAnalyzer of the first
\* evaluator called (long with no position or a short one, short with a long
\* position) indexed a nil slice; "exit": the open position hit a level.
\* With no position analyzeNewPosition runs long, then short: "hold" (no setup
\* test passed), "openLong", "openShort", "openBoth" (the evaluators whose setup
\* test passed).  With a position analyzeReversal runs the opposite evaluator:
\* "noSetupLong", "noSetupShort" (its setup test failed), "holdLong",
\* "holdShort" (a valid result of insufficient margin), "reverseLong",
\* "reverseShort".
PanicPaths == {"panicLong", "panicShort"}
Paths == {"error", "analyzeError", "hold", "noSetupLong", "noSetupShort",
          "holdLong", "holdShort", "exit",
          "openLong", "openShort", "openBoth", "reverseLong", "reverseShort"}
            \cup PanicPaths

\* The operations of ProcessCandle (50-124) on each of its paths; writes is the
\* number of writes of s.values made before the panic of a panic path.
ProcessCandleOps(path, writes) ==
    LET Start == EnsureOps \o HistoryOps \o LookupOps
    IN  CASE path = "error"        -> EnsureOps
          [] path = "analyzeError" -> Start
          [] path = "panicLong"    -> Start \o SubSeq(TechnicalOps("long"), 1, writes)
          [] path = "panicShort"   -> Start \o SubSeq(TechnicalOps("short"), 1, writes)
          [] path = "exit"         -> Start \o CloseOps
          [] path = "hold"         -> Start \o LongAnalyzeOps(FALSE) \o ShortAnalyzeOps(FALSE)
          [] path = "openLong"     -> Start \o LongAnalyzeOps(TRUE) \o ShortAnalyzeOps(FALSE)
                                        \o OpenOps
          [] path = "openShort"    -> Start \o LongAnalyzeOps(FALSE) \o ShortAnalyzeOps(TRUE)
                                        \o OpenOps
          [] path = "openBoth"     -> Start \o LongAnalyzeOps(TRUE) \o ShortAnalyzeOps(TRUE)
                                        \o OpenOps
          [] path = "noSetupLong"  -> Start \o LongAnalyzeOps(FALSE)
          [] path = "noSetupShort" -> Start \o ShortAnalyzeOps(FALSE)
          [] path = "holdLong"     -> Start \o LongAnalyzeOps(TRUE) \o MarginOps
          [] path = "holdShort"    -> Start \o ShortAnalyzeOps(TRUE) \o MarginOps
          [] path = "reverseLong"  -> Start \o LongAnalyzeOps(TRUE) \o MarginOps
                                        \o CloseOps \o OpenOps
          [] path = "reverseShort" -> Start \o ShortAnalyzeOps(TRUE) \o MarginOps
                                        \o CloseOps \o OpenOps

\* The goroutines of Callers each call ProcessCandle once, for a symbol of
\* their own.

\* mu and priceCache.mu: the writer holding each (0: none) and the readers of
\* the RWMutex; prog: the operations of the call a caller is in, and pc the
\* index of its next one; fault: the runtime aborted the program on concurrent
\* map accesses; panicked: a panic of an analyzer, which nothing recovers,
\* ended the process.
RaceInit ==
    [path |-> [t \in Callers |-> "idle"], pc |-> [t \in Callers |-> 0],
     prog |-> [t \in Callers |-> <<>>],
     writer |-> [m \in {"mu", "priceCache.mu"} |-> 0],
     readers |-> [m \in {"mu", "priceCache.mu"} |-> {}],
     fault |-> FALSE, panicked |-> FALSE]

\* closePosition of the repository-backed Engine (BacktestEngine.go, lines
\* 216-247): the open position is looked up and, when found, updated in the
\* repository; then, under e.mu, the balance, the highest balance when it is
\* exceeded and the trades are written and updateEquityCurve (262-270) is called, which locks e.mu itself.
UpdateEquityCurveOps ==
    <<Op("Lock", "mu"), Op("Write", "equityCurve"), Op("Unlock", "mu")>>
FoundPaths == {"found", "foundGain"}
GainPaths == {"foundGain", "missingGain"}
ClosePositionOps(path) ==
    <<Op("Read", "positionRepo")>>
      \o (IF path \in FoundPaths THEN <<Op("Write", "positionRepo")>> ELSE <<>>)
      \o <<Op("Lock", "mu"), Op("Write", "currentBalance")>>
      \o (IF path \in GainPaths THEN <<Op("Write", "maxBalance")>> ELSE <<>>)
      \o <<Op("Write", "trades")>>
      \o UpdateEquityCurveOps
      \o <<Op("Unlock", "mu")>>

ClosePaths == {"found", "missing", "foundGain", "missingGain"}

\* The operations of the call caller t is in.
Program(c, t) == c.prog[t]

Running(c, t) == c.pc[t] >= 1 /\ c.pc[t] <= Len(Program(c, t))

\* The operation caller t is about to make.
NextOp(c, t) ==
    IF Running(c, t) THEN Program(c, t)[c.pc[t]] ELSE Op("none", "")

\* Lock waits while the mutex has a writer or readers, whoever they are: the
\* mutexes of sync are not reentrant.  RLock waits while it has a writer.
CanStep(c, t) ==
    LET o == NextOp(c, t)
    IN  CASE o.op = "Lock" -> c.writer[o.on] = 0 /\ c.readers[o.on] = {}
          [] o.op = "RLock" -> c.writer[o.on] = 0
          [] OTHER -> TRUE

Stepped(c, t) ==
    LET o == NextOp(c, t)
        next == [c EXCEPT !.pc[t] = @ + 1]
    IN  CASE o.op = "Lock" -> [next EXCEPT !.writer[o.on] = t]
          [] o.op = "Unlock" -> [next EXCEPT !.writer[o.on] = 0]
          [] o.op = "RLock" -> [next EXCEPT !.readers[o.on] = @ \cup {t}]
          [] o.op = "RUnlock" -> [next EXCEPT !.readers[o.on] = @ \ {t}]
          [] OTHER -> next

Accesses(c, t) == NextOp(c, t).op \in {"Read", "Write"}

\* Two callers are about to access the same field, one of them writing it.
Conflict(c, t, u) ==
    /\ t # u
    /\ Accesses(c, t) /\ Accesses(c, u)
    /\ NextOp(c, t).on = NextOp(c, u).on
    /\ "Write" \in {NextOp(c, t).op, NextOp(c, u).op}

\* A goroutine calls ProcessCandle; the candle, the series and the state decide
\* the path.
RaceCall(t) ==
    /\ mode = "race" /\ ~conc.fault /\ ~conc.panicked
    /\ conc.path[t] = "idle"
    /\ \E path \in Paths :
       \E writes \in (IF path \in PanicPaths THEN PanicWrites ELSE {0}) :
          conc' = [conc EXCEPT !.path[t] = path, !.pc[t] = 1,
                               !.prog[t] = ProcessCandleOps(path, writes)]
    /\ UNCHANGED <<longMinConf, shortMinConf, mgrCall, mode, reversalDelta, eng, sim, ind, cf>>

\* The next operation of a call; Lock and RLock wait for the mutex, and the
\* write of an evaluator's minConfidence sets it to 0.3.
RaceStep(t) ==
    /\ mode = "race" /\ ~conc.fault /\ ~conc.panicked
    /\ Running(conc, t) /\ CanStep(conc, t)
    /\ conc' = Stepped(conc, t)
    /\ longMinConf' = IF NextOp(conc, t) = Op("Write", MinConfidenceOf("long"))
                      THEN LoweredMinConf ELSE longMinConf
    /\ shortMinConf' = IF NextOp(conc, t) = Op("Write", MinConfidenceOf("short"))
                       THEN LoweredMinConf ELSE shortMinConf
    /\ UNCHANGED <<mgrCall, mode, reversalDelta, eng, sim, ind, cf>>

\* ProcessCandle returns.
RaceReturn(t) ==
    /\ mode = "race" /\ ~conc.fault /\ ~conc.panicked
    /\ conc.path[t] \in Paths \ PanicPaths /\ conc.pc[t] > Len(Program(conc, t))
    /\ conc' = [conc EXCEPT !.path[t] = "done"]
    /\ UNCHANGED <<longMinConf, shortMinConf, mgrCall, mode, reversalDelta, eng, sim, ind, cf>>

\* The index of the nil slice (TechnicalAnalysis.go, line 58 or 59): the panic
\* unwinds the goroutine, which holds no lock and has no deferred call, and
\* the runtime ends the process.
RacePanic(t) ==
    /\ mode = "race" /\ ~conc.fault /\ ~conc.panicked
    /\ conc.path[t] \in PanicPaths /\ conc.pc[t] > Len(Program(conc, t))
    /\ conc' = [conc EXCEPT !.panicked = TRUE]
    /\ UNCHANGED <<longMinConf, shortMinConf, mgrCall, mode, reversalDelta, eng, sim, ind, cf>>

\* Two conflicting accesses of the positions map at once: the Go runtime may
\* detect them and abort ("concurrent map writes"), or not.
RaceFault ==
    /\ mode = "race" /\ ~conc.fault /\ ~conc.panicked
    /\ \E t, u \in Callers :
          Conflict(conc, t, u) /\ NextOp(conc, t).on = "positions"
    /\ conc' = [conc EXCEPT !.fault = TRUE]
    /\ UNCHANGED <<longMinConf, shortMinConf, mgrCall, mode, reversalDelta, eng, sim, ind, cf>>

\* A goroutine calls closePosition of the repository-backed Engine.
CloseCall(t) ==
    /\ mode = "close"
    /\ conc.path[t] = "idle"
    /\ \E path \in ClosePaths :
          conc' = [conc EXCEPT !.path[t] = path, !.pc[t] = 1,
                               !.prog[t] = ClosePositionOps(path)]
    /\ UNCHANGED <<longMinConf, shortMinConf, mgrCall, mode, reversalDelta, eng, sim, ind, cf>>

CloseStep(t) ==
    /\ mode = "close"
    /\ Running(conc, t) /\ CanStep(conc, t)
    /\ conc' = Stepped(conc, t)
    /\ UNCHANGED <<longMinConf, shortMinConf, mgrCall, mode, reversalDelta, eng, sim, ind, cf>>

-----------------------------------------------------------------------------
(* PositionHandler.HandlePositionRequest (PositionHandler.go, lines 31-68),  *)
(* called from several goroutines on one PositionHandler.  A panic of the    *)
(* executor runs the deferred Delete and leaves HandlePositionRequest; the   *)
(* goroutine goes on unwinding while the others run, and since nothing in    *)
(* the program recovers the panic the runtime then ends the process          *)
(* (ended): no goroutine takes another step.                                 *)

HandlerSymbols == {"BTC", "ETH"}
HandlerActions == {"open", "reverse", "other"}

\* key := fmt.Sprintf("position_%s", req.Symbol)
Key(symbol) == <<"position", symbol>>

\* loaded of activePositions.LoadOrStore(key, true): whether the key was there.
LoadOrStoreNever(active, key) == FALSE
LoadOrStoreLoaded(active, key) == key \in active

NoRequest == [pc |-> "idle", symbol |-> "", action |-> "", result |-> "none", called |-> FALSE]

\* NewPositionHandler: no active key, no request running.
HandlerInit == [active |-> {}, req |-> [t \in Callers |-> NoRequest], ended |-> FALSE]

\* A goroutine calls HandlePositionRequest(ctx, req).
HandlerCall(t) ==
    /\ mode = "handler" /\ ~conc.ended
    /\ conc.req[t].pc \in {"idle", "returned"}
    /\ \E symbol \in HandlerSymbols, action \in HandlerActions :
          conc' = [conc EXCEPT !.req[t] =
                      [NoRequest EXCEPT !.pc = "enter", !.symbol = symbol, !.action = action]]
    /\ UNCHANGED <<longMinConf, shortMinConf, mgrCall, mode, reversalDelta, eng, sim, ind, cf>>

\* Lines 33-37: LoadOrStore is one atomic operation of sync.Map.
HandlerLoadOrStore(t) ==
    /\ mode = "handler" /\ ~conc.ended
    /\ conc.req[t].pc = "enter"
    /\ LET key == Key(conc.req[t].symbol)
       IN  conc' = IF LoadOrStoreLoaded(conc.active, key)
                   THEN [conc EXCEPT !.req[t].pc = "returned", !.req[t].result = "in progress"]
                   ELSE [conc EXCEPT !.active = @ \cup {key}, !.req[t].pc = "switch"]
    /\ UNCHANGED <<longMinConf, shortMinConf, mgrCall, mode, reversalDelta, eng, sim, ind, cf>>

\* Lines 39-67 up to the call of the executor: an unknown action and a failed
\* getCurrentPosition return without calling it.
HandlerSwitch(t) ==
    /\ mode = "handler" /\ ~conc.ended
    /\ conc.req[t].pc = "switch"
    /\ \E found \in BOOLEAN :
          conc' = CASE conc.req[t].action = "open" ->
                         [conc EXCEPT !.req[t].pc = "executor", !.req[t].called = TRUE]
                    [] conc.req[t].action = "reverse" /\ found ->
                         [conc EXCEPT !.req[t].pc = "executor", !.req[t].called = TRUE]
                    [] conc.req[t].action = "reverse" /\ ~found ->
                         [conc EXCEPT !.req[t].pc = "deferred", !.req[t].result = "error"]
                    [] OTHER ->
                         [conc EXCEPT !.req[t].pc = "deferred", !.req[t].result = "unknown action"]
    /\ UNCHANGED <<longMinConf, shortMinConf, mgrCall, mode, reversalDelta, eng, sim, ind, cf>>

\* What executor.OpenPosition (executor.go, 30-42) and ReversePosition (44-71)
\* do: return nil, return an error, or panic at line 36 or 60 on the nil
\* balance that FindBySymbol returns, with a nil error, when there is no USDT
\* row (priceRepository.go, 259-261).
ExecutorOutcomes == {"nil", "error", "panic"}

\* executor.OpenPosition or executor.ReversePosition returns or panics.
HandlerExecutor(t) ==
    /\ mode = "handler" /\ ~conc.ended
    /\ conc.req[t].pc = "executor"
    /\ \E result \in ExecutorOutcomes :
          conc' = [conc EXCEPT !.req[t].pc = "deferred", !.req[t].result = result]
    /\ UNCHANGED <<longMinConf, shortMinConf, mgrCall, mode, reversalDelta, eng, sim, ind, cf>>

\* Line 37: the deferred activePositions.Delete(key), run on the return and
\* while a panic unwinds; then the function returns, or the panic leaves it
\* and goes on unwinding the goroutine.
HandlerDelete(t) ==
    /\ mode = "handler" /\ ~conc.ended
    /\ conc.req[t].pc = "deferred"
    /\ conc' = [conc EXCEPT !.active = @ \ {Key(conc.req[t].symbol)},
                            !.req[t].pc = IF conc.req[t].result = "panic"
                                          THEN "panicking" ELSE "returned"]
    /\ UNCHANGED <<longMinConf, shortMinConf, mgrCall, mode, reversalDelta, eng, sim, ind, cf>>

\* The panic reached the top of its goroutine: the runtime prints it and exits
\* the process, whatever the other goroutines are doing.
HandlerExit(t) ==
    /\ mode = "handler" /\ ~conc.ended
    /\ conc.req[t].pc = "panicking"
    /\ conc' = [conc EXCEPT !.ended = TRUE]
    /\ UNCHANGED <<longMinConf, shortMinConf, mgrCall, mode, reversalDelta, eng, sim, ind, cf>>

-----------------------------------------------------------------------------
(* PriceRecorder.recordPricesForTimeframe (priceRecorder.go, lines 83-126):  *)
(* one goroutine per symbol, one that waits for them, and the caller.        *)

RecorderSymbols == {"BTC", "ETH", "SOL"}

\* errors := make(chan error, len(r.symbols))
ErrorsCapUnbuffered(symbols) == 0
ErrorsCap(symbols) == Cardinality(symbols)

RecorderInit ==
    [main |-> "idle", symbols |-> {}, todo |-> {}, cap |-> 0,
     g |-> [s \in RecorderSymbols |-> "none"],
     sent |-> [s \in RecorderSymbols |-> 0],
     errors |-> <<>>, errMsgs |-> 0,
     waiter |-> "none", done |-> FALSE, closed |-> FALSE,
     ctxDone |-> FALSE, ret |-> "none"]

\* A send on the errors channel can proceed: there is room in the buffer, or
\* the caller is receiving.
CanSend(c) == Len(c.errors) < c.cap \/ c.main = "range"

\* wg.Wait() returns: every goroutine that was added has called wg.Done().
AllDone(c) == \A s \in c.symbols : c.g[s] = "done"

\* Lines 84-85: the call, for the recorder's symbols.
RecorderCall ==
    /\ mode = "recorder"
    /\ conc.main = "idle"
    /\ \E symbols \in SUBSET RecorderSymbols, ctxDone \in BOOLEAN :
          conc' = [conc EXCEPT !.main = "spawn", !.symbols = symbols, !.todo = symbols,
                               !.cap = ErrorsCap(symbols), !.ctxDone = ctxDone]
    /\ UNCHANGED <<longMinConf, shortMinConf, mgrCall, mode, reversalDelta, eng, sim, ind, cf>>

\* Lines 87-102: wg.Add(1) and the goroutine of one symbol is started.
RecorderGo(s) ==
    /\ mode = "recorder"
    /\ conc.main = "spawn" /\ s \in conc.todo
    /\ conc' = [conc EXCEPT !.todo = @ \ {s}, !.g[s] = "limiter"]
    /\ UNCHANGED <<longMinConf, shortMinConf, mgrCall, mode, reversalDelta, eng, sim, ind, cf>>

\* Lines 105-110: the goroutine that waits for the others is started.
RecorderGoWaiter ==
    /\ mode = "recorder"
    /\ conc.main = "spawn" /\ conc.todo = {}
    /\ conc' = [conc EXCEPT !.main = "select", !.waiter = "wait"]
    /\ UNCHANGED <<longMinConf, shortMinConf, mgrCall, mode, reversalDelta, eng, sim, ind, cf>>

\* Lines 93-96: r.limiter.Wait(ctx) returns nil or an error.
RecorderLimiter(s) ==
    /\ mode = "recorder"
    /\ conc.g[s] = "limiter"
    /\ \E err \in BOOLEAN :
          conc' = [conc EXCEPT !.g[s] = IF err THEN "send" ELSE "record"]
    /\ UNCHANGED <<longMinConf, shortMinConf, mgrCall, mode, reversalDelta, eng, sim, ind, cf>>

\* Lines 98-100: r.recordSymbolPrice returns nil, and the goroutine ends with
\* wg.Done(), or an error.
RecorderRecord(s) ==
    /\ mode = "recorder"
    /\ conc.g[s] = "record"
    /\ \E err \in BOOLEAN :
          conc' = [conc EXCEPT !.g[s] = IF err THEN "send" ELSE "done"]
    /\ UNCHANGED <<longMinConf, shortMinConf, mgrCall, mode, reversalDelta, eng, sim, ind, cf>>

\* Lines 94 and 99: errors <- err, then the goroutine ends with wg.Done().
RecorderSend(s) ==
    /\ mode = "recorder"
    /\ conc.g[s] = "send" /\ ~conc.closed /\ CanSend(conc)
    /\ conc' = [conc EXCEPT !.errors = Append(@, s), !.sent[s] = @ + 1, !.g[s] = "done"]
    /\ UNCHANGED <<longMinConf, shortMinConf, mgrCall, mode, reversalDelta, eng, sim, ind, cf>>

\* Lines 107-108: wg.Wait() returns and done is closed.
RecorderCloseDone ==
    /\ mode = "recorder"
    /\ conc.waiter = "wait" /\ AllDone(conc)
    /\ conc' = [conc EXCEPT !.waiter = "close", !.done = TRUE]
    /\ UNCHANGED <<longMinConf, shortMinConf, mgrCall, mode, reversalDelta, eng, sim, ind, cf>>

\* Line 109: close(errors).
RecorderCloseErrors ==
    /\ mode = "recorder"
    /\ conc.waiter = "close"
    /\ conc' = [conc EXCEPT !.waiter = "ended", !.closed = TRUE]
    /\ UNCHANGED <<longMinConf, shortMinConf, mgrCall, mode, reversalDelta, eng, sim, ind, cf>>

\* The context is cancelled.
RecorderCancel ==
    /\ mode = "recorder"
    /\ conc.main # "idle" /\ ~conc.ctxDone
    /\ conc' = [conc EXCEPT !.ctxDone = TRUE]
    /\ UNCHANGED <<longMinConf, shortMinConf, mgrCall, mode, reversalDelta, eng, sim, ind, cf>>

\* Lines 112-115: the select of the caller.
RecorderSelect ==
    /\ mode = "recorder"
    /\ conc.main = "select"
    /\ \/ conc.ctxDone /\ conc' = [conc EXCEPT !.main = "returned", !.ret = "ctx.Err()"]
       \/ conc.done /\ conc' = [conc EXCEPT !.main = "range"]
    /\ UNCHANGED <<longMinConf, shortMinConf, mgrCall, mode, reversalDelta, eng, sim, ind, cf>>

\* Lines 116-124: the errors are received until the channel is closed and
\* empty.
RecorderRange ==
    /\ mode = "recorder"
    /\ conc.main = "range"
    /\ \/ /\ conc.errors # <<>>
          /\ conc' = [conc EXCEPT !.errors = Tail(@), !.errMsgs = @ + 1]
       \/ /\ conc.errors = <<>> /\ conc.closed
          /\ conc' = [conc EXCEPT !.main = "returned",
                                  !.ret = IF conc.errMsgs > 0 THEN "errors" ELSE "nil"]
    /\ UNCHANGED <<longMinConf, shortMinConf, mgrCall, mode, reversalDelta, eng, sim, ind, cf>>

\* The executions a behaviour starts with.
ConcInit(m) ==
    CASE m = "race" -> RaceInit
      [] m = "close" -> RaceInit
      [] m = "handler" -> HandlerInit
      [] m = "recorder" -> RecorderInit
      [] OTHER -> [path |-> "none"]

-----------------------------------------------------------------------------
(* Specifications.                                                         *)

InitAll ==
    /\ longMinConf = InitMinConf
    /\ shortMinConf = InitMinConf
    /\ reversalDelta = ReversalDelta
    /\ mgrCall = NoCall
    /\ eng = NewEngine
    /\ sim = NewSimulator
    /\ ind = NoIndCall
    /\ cf = NoConfCall
    /\ conc = ConcInit(mode)

\* The StrategyManager driven call by call.
MgrInit == mode = "mgr" /\ InitAll
MgrNext == MgrAnalyze \/ SetReversalDelta
SpecMgr == MgrInit /\ [][MgrNext]_vars

\* The in-memory Engine as shipped: the manager is handed nil series.
EngineNext == EngStart \/ EngRunSymbol \/ EngCandle \/ EngFinish
EngineInit == mode = "engine" /\ InitAll
SpecEngine == EngineInit /\ [][EngineNext]_vars

\* One indicator call on any series with any periods.
IndNext == EmaCall \/ RsiCall \/ MacdCall \/ BBandsCall
IndInit == mode = "ind" /\ InitAll
SpecInd == IndInit /\ [][IndNext]_vars

\* One confidence computation on any analyzer data.
ConfNext ==
    \/ VolumeConfidenceCall
    \/ TechnicalConfidenceCall
    \/ PriceConfidenceCall
    \/ EvaluatorConfidenceCall
    \/ WeightedConfidenceCall
ConfInit == mode = "conf" /\ InitAll
SpecConf == ConfInit /\ [][ConfNext]_vars

\* Two parallel calls of Simulator.ProcessCandle.
RaceNext ==
    \/ \E t \in Callers : RaceCall(t)
    \/ \E t \in Callers : RaceStep(t)
    \/ \E t \in Callers : RaceReturn(t)
    \/ \E t \in Callers : RacePanic(t)
    \/ RaceFault
RaceInitState == mode = "race" /\ InitAll
SpecRace == RaceInitState /\ [][RaceNext]_vars

\* Calls of closePosition of the repository-backed Engine.
CloseNext ==
    \/ \E t \in Callers : CloseCall(t)
    \/ \E t \in Callers : CloseStep(t)
CloseInit == mode = "close" /\ InitAll
SpecClose == CloseInit /\ [][CloseNext]_vars

\* Requests to one PositionHandler from several goroutines.
HandlerNext ==
    \/ \E t \in Callers : HandlerCall(t)
    \/ \E t \in Callers : HandlerLoadOrStore(t)
    \/ \E t \in Callers : HandlerSwitch(t)
    \/ \E t \in Callers : HandlerExecutor(t)
    \/ \E t \in Callers : HandlerDelete(t)
    \/ \E t \in Callers : HandlerExit(t)
HandlerInitState == mode = "handler" /\ InitAll
SpecHandler == HandlerInitState /\ [][HandlerNext]_vars

\* One call of recordPricesForTimeframe and its goroutines.
RecorderNext ==
    \/ RecorderCall
    \/ \E s \in RecorderSymbols : RecorderGo(s)
    \/ RecorderGoWaiter
    \/ \E s \in RecorderSymbols : RecorderLimiter(s)
    \/ \E s \in RecorderSymbols : RecorderRecord(s)
    \/ \E s \in RecorderSymbols : RecorderSend(s)
    \/ RecorderCloseDone
    \/ RecorderCloseErrors
    \/ RecorderCancel
    \/ RecorderSelect
    \/ RecorderRange
RecorderInitState == mode = "recorder" /\ InitAll
SpecRecorder == RecorderInitState /\ [][RecorderNext]_vars

\* The Simulator driven candle by candle.
SimInit == mode = "sim" /\ InitAll
SimNext == (\E t \in Callers : SimStep(t)) \/ SimFault
SpecSim == SimInit /\ [][SimNext]_vars

\* The repository-backed Engine.
RepoNext == EngStart \/ RepoRunSymbol \/ RepoCandle \/ EngFinish \/ StopRequest
RepoInit == mode = "repo" /\ InitAll
SpecRepo == RepoInit /\ [][RepoNext]_vars

\* RunBacktest of both Engines.
RunBacktestNext == (mode = "engine" /\ EngineNext) \/ (mode = "repo" /\ RepoNext)
RunBacktestInit == mode \in {"engine", "repo"} /\ InitAll
SpecRunBacktest == RunBacktestInit /\ [][RunBacktestNext]_vars

\* The methods of the in-memory Engine called one by one.
EngineCallsNext ==
    CallOpenPosition \/ CallUpdateEquityCurve \/ CallClosePosition \/ CallCalculateResults
EngineCallsInit == mode = "calls" /\ InitAll
SpecEngineCalls == EngineCallsInit /\ [][EngineCallsNext]_vars

\* Both backtest simulations that keep positions in memory: the Engine run by
\* RunBacktest and the Simulator.
BacktestNext == (mode = "engine" /\ EngineNext) \/ (mode = "sim" /\ SimNext)
BacktestInit == mode \in {"engine", "sim"} /\ InitAll
SpecBacktest == BacktestInit /\ [][BacktestNext]_vars

\* The two places that close a position at a level and name the exit reason:
\* the Engine's closePosition with getExitReason and the Simulator.
ExitsNext == (mode = "calls" /\ EngineCallsNext) \/ (mode = "sim" /\ SimNext)
ExitsInit == mode \in {"calls", "sim"} /\ InitAll
SpecExits == ExitsInit /\ [][ExitsNext]_vars

-----------------------------------------------------------------------------
(* Properties of the StrategyManager.                                      *)

InReversalCall == mgrCall.ret.kind # "none" /\ mgrCall.position # NoPosition
InNewPositionCall == mgrCall.ret.kind # "none" /\ mgrCall.position = NoPosition

\* The return of the evaluator opposite to the open position in the last call.
OppositeRet ==
    IF mgrCall.position.Side = "long" THEN mgrCall.ret.short ELSE mgrCall.ret.long
SameSideRet ==
    IF mgrCall.position.Side = "long" THEN mgrCall.ret.long ELSE mgrCall.ret.short

OppositeValid == OppositeRet.kind = "ok" /\ OppositeRet.res.IsValid

\* C3: with an open position of confidence c and a valid opposite evaluation of
\* confidence c', Analyze returns a valid result iff c' > c + reversalDelta, and
\* at c' = c + reversalDelta it returns "insufficient confidence for reversal".
C3_ReversalIffMargin ==
    (InReversalCall /\ OppositeValid) =>
        /\ mgrCall.ret.kind = "ok"
        /\ mgrCall.ret.res.IsValid <=>
               (OppositeRet.res.Confidence > mgrCall.position.Confidence + reversalDelta)
        /\ (OppositeRet.res.Confidence = mgrCall.position.Confidence + reversalDelta) =>
               /\ ~mgrCall.ret.res.IsValid
               /\ mgrCall.ret.res.Reason = "insufficient confidence for reversal"

C3_Witness ==
    /\ InReversalCall /\ OppositeValid
    /\ OppositeRet.res.Confidence = mgrCall.position.Confidence + reversalDelta
    /\ ~mgrCall.ret.res.IsValid

\* C4: with no position, Analyze returns "no valid setup found" exactly when
\* neither evaluation is valid, the single valid evaluation when one is, and with
\* both valid the strictly more confident one, a tie always going to short.
C4_NewPositionChoice ==
    (InNewPositionCall /\ mgrCall.ret.kind = "ok") =>
        LET l == mgrCall.ret.long.res
            s == mgrCall.ret.short.res
            out == mgrCall.ret.res
        IN  /\ (~out.IsValid /\ out.Reason = "no valid setup found")
                   <=> (~l.IsValid /\ ~s.IsValid)
            /\ (l.IsValid /\ ~s.IsValid) => out = l
            /\ (s.IsValid /\ ~l.IsValid) => out = s
            /\ (l.IsValid /\ s.IsValid /\ l.Confidence > s.Confidence) => out = l
            /\ (l.IsValid /\ s.IsValid /\ s.Confidence > l.Confidence) => out = s
            /\ (l.IsValid /\ s.IsValid /\ s.Confidence = l.Confidence) => out = s

C4_Witness ==
    /\ InNewPositionCall /\ mgrCall.ret.kind = "ok"
    /\ mgrCall.ret.long.res.IsValid /\ mgrCall.ret.short.res.IsValid
    /\ mgrCall.ret.res.Direction = "short"

\* C5: with an open position only the opposite evaluator is run, and a valid
\* result never has the direction of the open position.
C5_OnlyOppositeDirection ==
    InReversalCall =>
        /\ SameSideRet.kind = "notrun"
        /\ OppositeRet.kind # "notrun"
        /\ mgrCall.ret.res.IsValid => mgrCall.ret.res.Direction # mgrCall.position.Side

C5_Witness ==
    /\ InReversalCall
    /\ mgrCall.ret.res.IsValid
    /\ mgrCall.position.Side = "short" /\ mgrCall.ret.res.Direction = "long"

-----------------------------------------------------------------------------
(* Properties of the backtest simulations.                                 *)

\* The candle a recorded trade was closed on, as far as the exit tests read it.
ExitCandle(tr) == [high |-> tr.xHigh, low |-> tr.xLow]
RecordedTrades == IF mode = "sim" THEN sim.trades ELSE eng.trades

\* C1: in the Engine (activePosition slot) and in the Simulator (positions
\* map, reversals included), after any sequence of processed candles every
\* symbol has at most one position that was opened and not yet closed.  A
\* sequence of candles of a symbol is processed one call after the other: the
\* Simulator's part is stated for the symbols none of whose calls was started
\* while another call for the symbol was in progress.
C1_AtMostOneOpenPosition ==
    \A s \in Symbols :
        /\ eng.live[s] <= 1
        /\ ~sim.overlap[s] =>
              /\ SimLive(sim, s) <= 1
              /\ SimLive(sim, s) = (IF sim.positions[s] = 0 THEN 0 ELSE 1)

\* A reversal has just replaced an open position by the opposite one, in a
\* symbol whose calls were made one after the other.
C1_Witness ==
    /\ mode = "sim"
    /\ sim.last.kind = "reverse"
    /\ ~sim.overlap[sim.last.symbol]
    /\ sim.last.live = 1
    /\ sim.last.pos.Side # sim.last.closed.Side

\* A trade recorded by the Engine, or by the Simulator for a symbol whose
\* calls were made one after the other.
ClosedByOneCall(tr) == mode = "sim" => ~sim.overlap[tr.Symbol]

\* C2: a position closed on a candle that meets both its take-profit and its
\* stop-loss condition is recorded with exit reason "take_profit", never
\* "stop_loss".  The candle a position is closed on is the candle of the one
\* call that closes it.
C2_TakeProfitFirst ==
    \A i \in 1 .. Len(RecordedTrades) :
        LET tr == RecordedTrades[i]
        IN  (/\ ClosedByOneCall(tr)
             /\ TakeProfitHit(tr, ExitCandle(tr))
             /\ StopLossHit(tr, ExitCandle(tr)))
                => tr.Reason = "take_profit"

\* The Engine's closePosition recorded a position closed on a candle spanning
\* both of its levels.
C2_Witness ==
    /\ mode = "calls"
    /\ \E i \in 1 .. Len(eng.trades) :
          LET tr == eng.trades[i]
          IN  /\ TakeProfitHit(tr, ExitCandle(tr))
              /\ StopLossHit(tr, ExitCandle(tr))
              /\ tr.Reason = "take_profit"

\* C6: in the repository-backed Engine a position is closed (status closed) at
\* the first candle that meets its take-profit or stop-loss condition, so no
\* position that such a candle was processed for is still open.
C6_ClosedAtExitCandle ==
    \A i \in 1 .. Len(eng.positions) :
        eng.positions[i].xHit => eng.positions[i].Status = "closed"

\* C7: in the in-memory Engine a long trade closed on a candle whose high
\* reaches its take-profit has pnl = size * leverage * (take_profit - entry) / entry.
C7_TakeProfitPnl ==
    \A i \in 1 .. Len(eng.trades) :
        LET tr == eng.trades[i]
        IN  (tr.Side = "long" /\ TakeProfitHit(tr, ExitCandle(tr)))
                => tr.PnL = RMul(RMul(tr.Size, RInt(Leverage)),
                                 RDiv(RSub(tr.TakeProfit, tr.EntryPrice), tr.EntryPrice))

\* A long trade was closed on a candle whose high reached its take-profit.
C7_Witness ==
    \E i \in 1 .. Len(eng.trades) :
        /\ eng.trades[i].Side = "long"
        /\ TakeProfitHit(eng.trades[i], ExitCandle(eng.trades[i]))

\* RunBacktest of the repository-backed Engine returned results for a single
\* symbol; exactly one position was opened, a long one, and the high of the
\* candle after its entry reached its take-profit.
SingleLongTakeProfitRun ==
    /\ mode = "repo"
    /\ eng.out.kind = "results"
    /\ Len(eng.ran) = 1
    /\ Len(eng.positions) = 1
    /\ eng.positions[1].Side = "long"
    /\ eng.positions[1].xNextTakeProfit

\* C8: a run over a single symbol in which exactly one long position is opened
\* and the very next candle's high reaches its take-profit returns
\* TotalTrades = 1, WinningTrades = 1, WinRate = 1 and MaxDrawdown = 0.
C8_SingleWinningTrade ==
    SingleLongTakeProfitRun =>
        /\ eng.out.TotalTrades = 1
        /\ eng.out.WinningTrades = 1
        /\ eng.out.WinRate = RInt(1)
        /\ eng.out.MaxDrawdown = RZero

\* Such a run returned, its position still open in the repository.
C8_Witness ==
    /\ SingleLongTakeProfitRun
    /\ eng.positions[1].Status = "open"

\* C9: when ProcessCandle reverses a position (the candle met neither exit
\* level and the manager returned a valid result), the old position is
\* recorded as a trade closed at the candle's close with reason "reversal",
\* and exactly one position, of the opposite side, is open for the symbol.
\* The statement is about the call that has just returned (sim.last), made
\* for a symbol whose calls were made one after the other; tr is the trade
\* the call appended to the results.
C9_ReversalClosesAtClose ==
    (sim.last.kind = "reverse" /\ ~sim.overlap[sim.last.symbol]) =>
        LET s  == sim.last.symbol
            c  == sim.last.c
            tr == sim.last.closed
        IN  /\ \E i \in 1 .. Len(sim.trades) : sim.trades[i] = tr
            /\ tr.Symbol = s
            /\ tr.ExitTime = c.t
            /\ tr.ExitPrice = RInt(c.close)
            /\ tr.Reason = "reversal"
            /\ sim.last.pos # NoTrade
            /\ sim.last.pos.Side \in {"long", "short"} \ {tr.Side}
            /\ sim.last.pos.EntryTime = c.t
            /\ sim.last.live = 1

\* A reversal on a candle lying strictly between the levels of the position.
C9_Witness ==
    /\ sim.last.kind = "reverse"
    /\ ~sim.overlap[sim.last.symbol]
    /\ ~TakeProfitHit(sim.last.closed, sim.last.c)
    /\ ~StopLossHit(sim.last.closed, sim.last.c)
    /\ sim.last.closed.Reason = "reversal"

\* C10: when the data access of one symbol fails, RunBacktest still simulates
\* every symbol after it and returns results.
C10_OtherSymbolsContinue ==
    (eng.pc \in {"done", "failed"} /\ eng.dataFailed # <<>>)
        => (eng.out.kind = "results" /\ eng.syms = <<>>)

\* The data access of a symbol failed with symbols still to run.
C10_Witness ==
    /\ eng.dataFailed # <<>>
    /\ eng.syms # <<>>

\* C11: when a symbol has fewer candles than the warm-up window, RunBacktest of
\* the in-memory Engine skips it without an error, processes the remaining
\* symbols and returns results.
C11_ShortSymbolSkipped ==
    (eng.pc \in {"done", "failed"} /\ eng.tooShort # <<>>)
        => (eng.out.kind = "results" /\ eng.syms = <<>>)

\* A symbol with too few candles was met with symbols still to run.
C11_Witness ==
    /\ eng.tooShort # <<>>
    /\ eng.syms # <<>>

\* C12: when an analyzer has too few candles for one of its series, the
\* manager returns an invalid result with a reason and no error, and does not
\* panic.
C12_InsufficientDataInvalid ==
    (mgrCall.ret.kind # "none"
        /\ (VolumeInsufficient(mgrCall.lens) \/ TechnicalPanics(mgrCall.lens)))
        => /\ mgrCall.ret.kind = "ok"
           /\ ~mgrCall.ret.res.IsValid
           /\ mgrCall.ret.res.Reason # ""

\* The manager was called with an empty 15m series.
C12_Witness ==
    /\ mgrCall.ret.kind # "none"
    /\ mgrCall.lens.m15 = 0

-----------------------------------------------------------------------------
(* Properties of the indicators.                                           *)

\* The last indicator call had an empty series, a series shorter than the
\* lookback its function requires, or a period that is not positive.
BadIndicatorInput ==
    \/ Len(ind.prices) = 0
    \/ ind.period <= 0
    \/ ind.fn \in {"EMA", "BBands"} /\ Len(ind.prices) < ind.period
    \/ ind.fn = "RSI" /\ (Len(ind.prices) < ind.period + 1 \/ ind.p2 <= 0)
    \/ ind.fn = "MACD" /\ (ind.p2 <= 0 \/ ind.p3 <= 0
                             \/ Len(ind.prices) < ind.p2 + ind.p3 - 1)

\* C13: EMA, RSI, MACD and Bollinger Calculate return nil, and never panic, on
\* an input that is empty, shorter than the lookback, or has a period <= 0.
C13_BadInputReturnsNil ==
    (ind.fn # "none" /\ BadIndicatorInput) => ind.out.kind = "nil"

\* Bollinger Calculate was called on a non-empty series with period 0.
C13_Witness ==
    /\ ind.fn = "BBands"
    /\ ind.period = 0
    /\ Len(ind.prices) > 0

\* C19: EMAService.Calculate puts the mean of the first period prices at index
\* period - 1 and satisfies ema[i] = (price[i] - ema[i-1]) * 2/(period+1) + ema[i-1]
\* for every i >= period; for period 3 over 1,2,3,4,5 it gives 2, 3, 4 at
\* indexes 2, 3, 4.
C19_EmaSeedAndRecurrence ==
    (ind.fn = "EMA" /\ ind.out.kind = "values") =>
        LET ema == ind.out.v
            n   == Len(ind.prices)
            k   == ind.period
        IN  /\ Len(ema) = n
            /\ RMul(ema[k], RInt(k)) = SumTo(ind.prices, k)
            /\ \A i \in k + 1 .. n :
                  ema[i] = RAdd(RMul(RSub(ind.prices[i], ema[i - 1]), RFrac(2, k + 1)),
                                ema[i - 1])
            /\ (ind.prices = Ramp(5) /\ k = 3) =>
                  (ema[3] = RInt(2) /\ ema[4] = RInt(3) /\ ema[5] = RInt(4))

\* EMA of period 3 over 1,2,3,4,5 was computed.
C19_Witness ==
    /\ ind.fn = "EMA" /\ ind.out.kind = "values"
    /\ ind.prices = Ramp(5) /\ ind.period = 3
    /\ ind.out.v[5] = RInt(4)


-----------------------------------------------------------------------------
(* Properties of the equity curve and of the results.                      *)

\* C14: the in-memory Engine appends one EquityPoint per position close: every
\* step that records a closed trade appends exactly one point to the equity
\* curve.
C14_EquityPointPerClose ==
    [][Len(eng'.trades) = Len(eng.trades) + 1
          => Len(eng'.equityCurve) = Len(eng.equityCurve) + 1]_vars

\* closePosition recorded a trade and the equity curve has no point.
C14_Witness ==
    /\ mode = "calls"
    /\ Len(eng.trades) = 1
    /\ eng.equityCurve = <<>>

\* C15: the EquityCurve of the results RunBacktest returns, over one or more
\* symbols, is ordered by non-decreasing timestamp.
C15_EquityCurveOrdered ==
    eng.out.kind = "results" =>
        \A i \in 1 .. Len(eng.out.EquityCurve) - 1 :
            eng.out.EquityCurve[i].Timestamp <= eng.out.EquityCurve[i + 1].Timestamp

\* RunBacktest returned results for two symbols after a position was opened in
\* each, the second on an earlier candle of its series than the first: the
\* curve the Engine keeps is not ordered, the results carry none of it.
C15_Witness ==
    /\ eng.out.kind = "results"
    /\ Len(eng.ran) = 2
    /\ Len(eng.equityCurve) = 2
    /\ eng.equityCurve[1].Timestamp > eng.equityCurve[2].Timestamp
    /\ eng.out.EquityCurve = <<>>

\* The premise of C17: the per-step returns of the curve, as the exact
\* quotients of its balances, are all equal.
EqualReturns(curve) ==
    /\ ~ZeroDivisor(curve)
    /\ \A i, j \in 2 .. Len(curve) :
          RDiv(RSub(curve[i].Balance, curve[i - 1].Balance), curve[i - 1].Balance)
            = RDiv(RSub(curve[j].Balance, curve[j - 1].Balance), curve[j - 1].Balance)

\* C17: calculateSharpeRatio returns 0 when the equity curve has fewer than two
\* points or all its per-step returns are equal, for every length of the
\* curve, two points included, and never divides by zero.
C17_SharpeZeroWithoutVariance ==
    (eng.out.kind = "results" /\ eng.out.TotalTrades >= 1
        /\ (Len(eng.equityCurve) < 2 \/ EqualReturns(eng.equityCurve)))
        => eng.out.SharpeRatio = "zero"

\* calculateResults returned results computed from an equity curve of two
\* points.
C17_Witness ==
    /\ mode = "calls"
    /\ eng.out.kind = "results"
    /\ eng.out.TotalTrades >= 1
    /\ Len(eng.equityCurve) = 2


\* C16: every trade recorded in the results by the Engine or the Simulator has
\* its entry price, exit price and exit time set and an exit reason that is
\* take_profit, stop_loss or reversal; "unknown" is never recorded.
C16_RecordedTradesComplete ==
    \A i \in 1 .. Len(RecordedTrades) :
        LET tr == RecordedTrades[i]
        IN  /\ tr.EntryPrice # RZero
            /\ tr.ExitPrice # RZero
            /\ tr.ExitTime # 0
            /\ tr.Reason \in {"take_profit", "stop_loss", "reversal"}

\* The Simulator recorded a trade closed by a reversal, with its prices and
\* exit time set.
C16_Witness ==
    /\ mode = "sim"
    /\ \E i \in 1 .. Len(sim.trades) :
          /\ sim.trades[i].Reason = "reversal"
          /\ sim.trades[i].ExitPrice # RZero
          /\ sim.trades[i].ExitTime # 0


-----------------------------------------------------------------------------
(* Properties of the confidence values.                                    *)

InUnitInterval(x) == x.k = "num" /\ RLeq(RZero, x.q) /\ RLeq(x.q, RInt(1))

\* C18: every confidence produced by the Volume, Technical and Price analyzers
\* and by the Long and Short evaluators lies in [0,1], for any finite candles.
C18_ConfidenceInUnitInterval ==
    cf.fn # "none" => InUnitInterval(cf.out)

\* The Volume analyzer was given a 5m window whose last candle has volume 0
\* and no trade.
C18_Witness ==
    /\ cf.fn = "volume"
    /\ cf.args[1].volume = 0
    /\ cf.args[1].tradeCount = 0
    /\ cf.args[1].avgVolume > 0


-----------------------------------------------------------------------------
(* Properties of the Simulator's reversals.                                *)

\* C20: ProcessCandle reverses an open position only when the confidence of
\* the opposing result exceeds, by more than reversalDelta, the confidence of
\* the strategy result that opened the position.
C20_ReversalNeedsMargin ==
    (sim.last.kind = "reverse" /\ ~sim.overlap[sim.last.symbol]) =>
        sim.last.pos.xConf > sim.last.closed.xConf + reversalDelta

\* ProcessCandle reversed a position that a valid result had opened.
C20_Witness ==
    /\ sim.last.kind = "reverse"
    /\ ~sim.overlap[sim.last.symbol]
    /\ sim.last.closed.xConf >= BaseConf
    /\ sim.last.pos.xConf >= BaseConf


-----------------------------------------------------------------------------
(* Properties of the evaluators' configuration and threshold.              *)

\* The returns of the evaluators in the last manager call, each with the
\* outcome of its setup test.
EvaluatorRuns ==
    {[ret |-> mgrCall.ret.long, setup |-> mgrCall.computed.longSetup],
     [ret |-> mgrCall.ret.short, setup |-> mgrCall.computed.shortSetup]}

\* C21: Analyze leaves the configuration of the Long and Short evaluators
\* unchanged: after any number of calls minConfidence has the value set at
\* construction.
C21_ConfigurationUnchanged ==
    /\ longMinConf = InitMinConf
    /\ shortMinConf = InitMinConf

\* An evaluator ran on a valid setup and computed a confidence.
C21_Witness ==
    \E r \in EvaluatorRuns : r.ret.kind = "ok" /\ r.setup

\* C22: every valid result of an evaluator has confidence >= the threshold the
\* evaluator was constructed with (0.7), and a valid setup whose confidence is
\* below that threshold gives an invalid result with reason "low confidence".
C22_ThresholdEnforced ==
    \A r \in EvaluatorRuns :
        r.ret.kind = "ok" =>
            /\ r.ret.res.IsValid => r.ret.res.Confidence >= InitMinConf
            /\ (r.setup /\ mgrCall.computed.confidence < InitMinConf)
                  => (~r.ret.res.IsValid /\ r.ret.res.Reason = "low confidence")

\* An evaluator ran on a valid setup whose confidence is below 0.7.
C22_Witness ==
    \E r \in EvaluatorRuns :
        /\ r.ret.kind = "ok"
        /\ r.setup
        /\ mgrCall.computed.confidence < InitMinConf


-----------------------------------------------------------------------------
(* Properties of the order of exits and entries.                           *)

\* A candle step of the in-memory Engine taken with a position in the slot:
\* the slot keeps the position, or the position is recorded as a trade and the
\* slot is left empty; no other position enters the slot on that candle.
EngineExitBeforeEntry ==
    (mode = "engine" /\ eng.pc = "sym" /\ eng.active # NoTrade) =>
        \/ eng'.active = eng.active /\ eng'.trades = eng.trades
        \/ /\ eng'.active = NoTrade
           /\ Len(eng'.trades) = Len(eng.trades) + 1
           /\ eng'.trades[Len(eng'.trades)].EntryTime = eng.active.EntryTime
           /\ eng'.trades[Len(eng'.trades)].ExitTime = eng.t

\* The steps of a call of ProcessCandle, for every caller.  The manager is
\* consulted (the step from line 91 or 107) only by a call that found no
\* position at line 75 or whose candle meets no exit level of the position it
\* found.  A call that found a position stores a new one (line 154) only
\* after it appended the position to the results.  In a symbol whose calls
\* were made one after the other the map holds no position for the symbol
\* when one is stored, the position a reversal appended was closed on the
\* call's candle, and a call that returns from the exit path has recorded the
\* position and left the map empty.
SimulatorExitBeforeEntry ==
    mode = "sim" =>
        \A t \in Callers :
            LET r == sim.run[t]
                returns == r.pc # "idle" /\ sim'.run[t].pc = "idle"
            IN  /\ (r.pc = "analyze" /\ sim'.run[t] # r) =>
                      (r.pos = 0 \/ ~(TakeProfitHit(sim.heap[r.pos], r.c)
                                        \/ StopLossHit(sim.heap[r.pos], r.c)))
                /\ (r.pc = "store" /\ returns /\ r.pos # 0) =>
                      /\ r.closed.EntryTime = sim.heap[r.pos].EntryTime
                      /\ \E i \in 1 .. Len(sim.trades) : sim.trades[i] = r.closed
                /\ (r.pc = "store" /\ returns /\ ~sim.overlap[r.symbol]) =>
                      /\ sim.positions[r.symbol] = 0
                      /\ r.pos # 0 => r.closed.ExitTime = r.c.t
                /\ (returns /\ sim'.last.kind = "exit" /\ ~sim.overlap[r.symbol]) =>
                      /\ sim'.last.closed.EntryTime = sim.heap[r.pos].EntryTime
                      /\ sim'.last.closed.ExitTime = r.c.t
                      /\ sim'.positions[r.symbol] = 0

\* C23: within one symbol's simulation the exit test of the open position is
\* made on every candle before the Strategy Manager is consulted, and no new
\* position is opened on a candle until the exit of the previously open
\* position has been recorded.
C23_ExitBeforeEntry ==
    [][EngineExitBeforeEntry /\ SimulatorExitBeforeEntry]_vars

\* The Simulator has just closed a position at a level without consulting the
\* manager.
C23_Witness ==
    /\ mode = "sim"
    /\ sim.last.kind = "exit"
    /\ ~sim.overlap[sim.last.symbol]
    /\ sim.last.closed.Reason \in {"take_profit", "stop_loss"}
    /\ sim.last.pos = NoTrade


-----------------------------------------------------------------------------
(* Properties of the candle windows.                                       *)

\* C24: at every candle processed by the repository-backed Engine none of the
\* 5m, 15m, 1h and 4h series handed to the Strategy Manager holds a candle
\* that opens later than the candle being processed.
C24_NoLookAhead ==
    (mode = "repo" /\ eng.handed # NoHanded) =>
        /\ eng.handed.m5 <= eng.handed.at
        /\ eng.handed.m15 <= eng.handed.at
        /\ eng.handed.h1 <= eng.handed.at
        /\ eng.handed.h4 <= eng.handed.at

\* The manager was consulted on a candle that is not the last one of the run.
C24_Witness ==
    /\ mode = "repo"
    /\ eng.handed # NoHanded
    /\ eng.pc = "sym"
    /\ eng.handed.at < WarmUp + eng.t - 1 + eng.left - 1


\* C25: at every call of Simulator.ProcessCandle that consults the manager,
\* the first for a symbol and every later one, the 5m series handed over ends
\* with the candle being processed, so the stop and target of a position
\* opened from the result are derived from that candle's close.
C25_SeriesEndAtCandle ==
    (sim.last.kind \in {"hold", "reverse", "open"} /\ ~sim.overlap[sim.last.symbol]) =>
        LET symbol == sim.last.symbol
            c      == sim.last.c
            pos    == sim.last.pos
            levels == IF pos.Side = "long" THEN LongLevels(RInt(c.close))
                                           ELSE ShortLevels(RInt(c.close))
        IN  /\ sim.last.at = c.t
            /\ sim.last.kind \in {"reverse", "open"} =>
                  /\ pos.StopLoss = levels.StopLoss
                  /\ pos.TakeProfit = levels.TakeProfit

\* The manager was consulted on a candle later than the one the symbol's
\* series were loaded on.
C25_Witness ==
    /\ sim.last.kind \in {"hold", "reverse", "open"}
    /\ ~sim.overlap[sim.last.symbol]
    /\ sim.last.at > 0
    /\ sim.last.c.t > sim.last.at


-----------------------------------------------------------------------------
(* Properties of the concurrent executions.                                *)

SimulationState == {"balance", "positions", "trades", "equityCurve"}

\* C26: every read or write of the Simulator's shared simulation state made by
\* ProcessCandle happens while the Simulator's mutex is held, so two calls
\* running in parallel for different symbols cannot race on that state.
C26_SharedStateUnderMutex ==
    mode = "race" =>
        /\ \A t \in Callers :
              (Accesses(conc, t) /\ NextOp(conc, t).on \in SimulationState)
                  => conc.writer["mu"] = t
        /\ \A t, u \in Callers :
              ~(Conflict(conc, t, u) /\ NextOp(conc, t).on \in SimulationState)

\* Two calls are inside ProcessCandle at once, both past the price cache.
C26_Witness ==
    /\ mode = "race"
    /\ \A t \in Callers :
          Running(conc, t) /\ conc.pc[t] > Len(EnsureOps \o HistoryOps)


\* C27: RunBacktest observes an external stop signal at per-candle or
\* per-symbol granularity: once a stop is requested no further symbol is
\* processed.
C27_StopObserved ==
    [][(mode = "repo" /\ eng.stop) =>
           (Len(eng'.syms) = Len(eng.syms) /\ eng'.cur = eng.cur)]_vars

\* A stop was requested during the candles of a symbol, with symbols left.
C27_Witness ==
    /\ mode = "repo"
    /\ eng.stop
    /\ eng.pc = "sym"
    /\ eng.syms # <<>>


\* C28: closePosition of the repository-backed Engine always returns and
\* leaves the engine mutex unlocked: while it holds the mutex it never calls an
\* operation that acquires the same mutex again.
C28_NoLockWhileHeld ==
    mode = "close" =>
        \A t \in Callers :
            /\ ~(NextOp(conc, t).op = "Lock" /\ conc.writer[NextOp(conc, t).on] = t)
            /\ (conc.path[t] \in ClosePaths /\ ~Running(conc, t)) =>
                   conc.writer["mu"] # t

\* A call of closePosition holds the engine mutex.
C28_Witness ==
    /\ mode = "close"
    /\ \E t \in Callers : Running(conc, t) /\ conc.writer["mu"] = t


\* The requests that passed LoadOrStore and have not yet run the deferred
\* Delete.
InFlight(t) == conc.req[t].pc \in {"switch", "executor", "deferred"}

\* C29: HandlePositionRequest admits at most one operation in flight per
\* symbol: a request arriving while another for the same symbol is in progress
\* returns the "in progress" error without calling the executor, and the
\* marker of a symbol is there exactly while a request for it is in flight, so
\* it is removed when the request finishes.
C29_OneInFlightPerSymbol ==
    mode = "handler" =>
        /\ \A t, u \in Callers :
              (t # u /\ InFlight(t) /\ InFlight(u)) =>
                  conc.req[t].symbol # conc.req[u].symbol
        /\ \A t \in Callers :
              conc.req[t].result = "in progress" => ~conc.req[t].called
        /\ conc.active = {Key(conc.req[t].symbol) : t \in {u \in Callers : InFlight(u)}}

\* A request was refused while the other one, for the same symbol, is in the
\* executor.
C29_Witness ==
    /\ mode = "handler"
    /\ \E t, u \in Callers :
          /\ conc.req[t].result = "in progress"
          /\ conc.req[u].pc = "executor"
          /\ conc.req[u].symbol = conc.req[t].symbol

\* C30: in recordPricesForTimeframe no goroutine blocks on its send to the
\* errors channel, also after the context was cancelled and the caller
\* returned: each goroutine sends at most one error and the buffer holds one
\* per symbol; the channel is closed only after every goroutine finished.
C30_SendNeverBlocks ==
    mode = "recorder" =>
        /\ \A s \in RecorderSymbols :
              /\ conc.g[s] = "send" => (Len(conc.errors) < conc.cap /\ ~conc.closed)
              /\ conc.sent[s] <= 1
        /\ conc.closed => (conc.todo = {} /\ AllDone(conc))

\* The caller returned on the cancelled context while a goroutine is about to
\* send its error and another error is already in the buffer.
C30_Witness ==
    /\ mode = "recorder"
    /\ conc.main = "returned" /\ conc.ret = "ctx.Err()"
    /\ conc.errors # <<>>
    /\ \E s \in RecorderSymbols : conc.g[s] = "send"

====
